---- MODULE Spec2Model ----
(***************************************************************************)
(* The ReAct control loops of lib/agents.py (OptimalReActAgent),           *)
(* lib/custom_react_agent.py (ReActAgent with loop guard) and              *)
(* lib/react_agent.py (ReActAgent).                                        *)
(*                                                                         *)
(* A text (model output, observation, answer) is a sequence of tokens:     *)
(* the tokens are the units the regular expressions of the parsers tell    *)
(* apart (the keywords "Thought:", "Action:", "Final Answer:", the         *)
(* brackets, and words), written with one blank between two tokens.        *)
(***************************************************************************)
EXTENDS Integers, Sequences, FiniteSets, TLC

\* ------------------------------------------------------------------ bounds
MaxIter == 3        \* largest max_iterations an agent is constructed with
MaxWindow == 2      \* largest history_length an agent is constructed with
MaxCalls == 3       \* model calls over all stream calls of one agent
MaxStreams == 2     \* stream calls made on one agent

\* ------------------------------------------------------------------ texts
None == <<>>
Some(v) == <<v>>
IsNone(o) == o = <<>>
Val(o) == o[1]

Min(S) == CHOOSE x \in S : \A y \in S : x <= y
Max(S) == CHOOSE x \in S : \A y \in S : x >= y

Keywords == {"Thought:", "Action:", "Final Answer:", "[", "]"}

\* \w+ : one word, no blank, no bracket, no colon
IsWord(tok) == tok \notin Keywords /\ tok # "[STDOUT]:"

\* str.lower() on the names the model may write
Lower(tok) ==
    CASE tok = "Finish" -> "finish"
      [] tok = "FINISH" -> "finish"
      [] tok = "Search" -> "search"
      [] tok = "Q" -> "q"
      [] OTHER -> tok

LowerText(t) == [k \in DOMAIN t |-> Lower(t[k])]

Positions(text, tok) == {p \in 1..Len(text) : text[p] = tok}

After(text, p) == SubSeq(text, p + 1, Len(text))

Between(text, p, q) == SubSeq(text, p + 1, q - 1)

\* mutant of Concat: only the fragment received last is kept
ConcatLast(chunks) ==
    IF chunks = <<>> THEN <<>> ELSE chunks[Len(chunks)]

RECURSIVE Concat(_)
Concat(chunks) ==
    IF chunks = <<>> THEN <<>> ELSE Head(chunks) \o Concat(Tail(chunks))

\* ------------------------------------------------- agents.py: the parser
\* ACTION_REGEX = Action:\s*(\w+)\s*\[(.*?)\]  at position p of the text
ActionAt(text, p) ==
    /\ p + 2 <= Len(text)
    /\ text[p] = "Action:"
    /\ IsWord(text[p + 1])
    /\ text[p + 2] = "["
    /\ \E e \in (p + 3)..Len(text) : text[e] = "]"

ActionClose(text, p) == Min({e \in (p + 3)..Len(text) : text[e] = "]"})

\* re.search: the leftmost match
ActionMatches(text) == {p \in 1..Len(text) : ActionAt(text, p)}

\* mutant of _parse_agent_output: the Action match is looked at before the
\* Final Answer match
ParseAgentOutputActionFirst(llm_output) ==
    LET tm == Positions(llm_output, "Thought:")
        fm == Positions(llm_output, "Final Answer:")
        am == ActionMatches(llm_output)
        thought == IF tm = {} THEN None ELSE Some(After(llm_output, Min(tm)))
    IN  IF am # {}
        THEN LET p == Min(am) IN
             [thought |-> thought,
              action_name |-> Some(llm_output[p + 1]),
              action_input |-> Some(Between(llm_output, p + 2, ActionClose(llm_output, p)))]
        ELSE IF fm # {}
        THEN [thought |-> thought,
              action_name |-> Some("finish"),
              action_input |-> Some(After(llm_output, Min(fm)))]
        ELSE [thought |-> thought, action_name |-> None, action_input |-> None]

\* _parse_agent_output: (thought, action_name, action_input)
ParseAgentOutput(llm_output) ==
    LET tm == Positions(llm_output, "Thought:")
        fm == Positions(llm_output, "Final Answer:")
        am == ActionMatches(llm_output)
        thought == IF tm = {} THEN None ELSE Some(After(llm_output, Min(tm)))
    IN  IF fm # {}
        THEN [thought |-> thought,
              action_name |-> Some("finish"),
              action_input |-> Some(After(llm_output, Min(fm)))]
        ELSE IF am # {}
        THEN LET p == Min(am) IN
             [thought |-> thought,
              action_name |-> Some(llm_output[p + 1]),
              action_input |-> Some(Between(llm_output, p + 2, ActionClose(llm_output, p)))]
        ELSE [thought |-> thought, action_name |-> None, action_input |-> None]

\* --------------------------------------- custom_react_agent.py: the parser
\* pattern_perfect = Thought: (.*?)\s*Action: (.*?)\s*\[(.*?)\]\s*$ matched
\* from the "Thought:" at p: lazy groups, so the first "Action:" after p that
\* has a "[" behind it, the first such "[", and the "]" that ends the text.
PerfectActions(text, p) ==
    {q \in (p + 1)..Len(text) :
        /\ text[q] = "Action:"
        /\ \E r \in (q + 1)..(Len(text) - 1) : text[r] = "["}

PerfectAt(text, p) ==
    /\ text[p] = "Thought:"
    /\ text[Len(text)] = "]"
    /\ PerfectActions(text, p) # {}

PerfectMatches(text) == {p \in 1..Len(text) : PerfectAt(text, p)}

\* pattern_action_only = Action: (.*?)\s*\[(.*?)\]  from the "Action:" at q
ActionOnlyAt(text, q) ==
    /\ text[q] = "Action:"
    /\ \E r \in (q + 1)..Len(text) :
          /\ text[r] = "["
          /\ \E e \in (r + 1)..Len(text) : text[e] = "]"

ActionOnlyMatches(text) == {q \in 1..Len(text) : ActionOnlyAt(text, q)}

\* thought_pattern = Thought: (.*?)\s*$ : "Thought:" and the blank after it
ThoughtOnlyMatches(text) == {p \in 1..(Len(text) - 1) : text[p] = "Thought:"}

SynthesizedThought == <<"Synthesized Thought">>

\* _parse_action: (full_text, action_name, action_input) or None
ParseAction(text) ==
    IF PerfectMatches(text) # {}
    THEN LET p == Min(PerfectMatches(text))
             q == Min(PerfectActions(text, p))
             r == Min({x \in (q + 1)..(Len(text) - 1) : text[x] = "["})
         IN  Some(<<After(text, p - 1), Between(text, q, r), Between(text, r, Len(text))>>)
    ELSE IF ActionOnlyMatches(text) # {}
    THEN LET q == Min(ActionOnlyMatches(text))
             r == Min({x \in (q + 1)..Len(text) :
                          /\ text[x] = "["
                          /\ \E e \in (x + 1)..Len(text) : text[e] = "]"})
             e == Min({x \in (r + 1)..Len(text) : text[x] = "]"})
             action_name == Between(text, q, r)
             action_input == Between(text, r, e)
             before == SubSeq(text, 1, q - 1)
             thought_text == IF before = <<>> THEN SynthesizedThought ELSE before
         IN  Some(<<(<<"Thought:">> \o thought_text \o <<"Action:">> \o action_name
                       \o <<"[">> \o action_input \o <<"]">>),
                    action_name, action_input>>)
    ELSE IF ThoughtOnlyMatches(text) # {}
    THEN Some(<<text, <<>>, <<>> >>)
    ELSE None

\* mutant of FindAll: only the first match is returned
FindFirst(text, from) ==
    LET ms == {p \in from..Len(text) : ActionAt(text, p)}
    IN  IF ms = {} THEN <<>>
        ELSE LET p == Min(ms)
                 e == ActionClose(text, p)
             IN  <<(<<text[p + 1], Between(text, p + 2, e)>>)>>

\* ----------------------------------------------- react_agent.py: the parser
\* action_regex.findall(full_text): the matches left to right, none
\* overlapping another; the stream keeps the last one.
RECURSIVE FindAll(_, _)
FindAll(text, from) ==
    LET ms == {p \in from..Len(text) : ActionAt(text, p)}
    IN  IF ms = {} THEN <<>>
        ELSE LET p == Min(ms)
                 e == ActionClose(text, p)
             IN  <<(<<text[p + 1], Between(text, p + 2, e)>>)>> \o FindAll(text, e + 1)

\* ------------------------------------------------------------ collaborators
\* The tools passed at construction (lib/tools.py): search returns its text
\* or raises; calculate and run_shell_command return a SUCCESS or an ERROR
\* report and never raise, and only the shell's report has a [STDOUT] part.
ToolNames == {"search", "calculate", "run_shell_command"}

ObsPlain == <<"results">>
ObsSuccess == <<"SUCCESS", "result">>
ObsStdout == <<"SUCCESS", "[STDOUT]:", "out">>
ObsError == <<"ERROR:", "failed">>

ToolReturns(name) ==
    CASE name = "calculate" -> {ObsSuccess, ObsError}
      [] name = "run_shell_command" -> {ObsStdout, ObsError}
      [] OTHER -> {ObsPlain}

ToolMayRaise(name) == name = "search"

\* type(e).__name__ and str(e) of what a tool raised
ToolFailure == <<"Exception:", "failed">>

Observations == UNION {ToolReturns(name) : name \in ToolNames}

\* What the model answers: the fragments of one response, in order.  The
\* awaited call of agents.py receives their concatenation.
ThoughtSearch == <<"Thought:", "think", "Action:", "search", "[", "q", "]">>
LLMStreams ==
    { <<ThoughtSearch>>,
      << <<"Thought:", "think", "Action:">>, <<"search", "[", "q", "]">> >>,
      << <<"Action:", "search", "[", "q", "]">> >>,
      << <<"Action:", "search", "[", "Q", "]">> >>,
      << <<"Action:", "Search", "[", "q", "]">> >>,
      << <<"Thought:", "think", "Action:", "calculate", "[", "q", "]">> >>,
      << <<"Thought:", "think", "Action:", "run_shell_command", "[", "q", "]">> >>,
      << <<"Thought:", "think", "Action:", "ghost", "[", "q", "]">> >>,
      << <<"Thought:", "think">> >>,
      << <<"Thought:", "think", "Action:", "finish", "[", "ans", "]">> >>,
      << <<"Action:", "finish", "[", "ans", "]">> >>,
      << <<"Thought:", "think", "Action:", "Finish", "[", "ans", "]">> >>,
      << <<"Action:", "FINISH", "[", "ans", "]">> >>,
      << <<"Action:", "finish", "[", "{input:", "ans", "}", "]">> >>,
      << <<"Thought:", "think", "Action:", "finish", "[", "]">> >>,
      << <<"Action:", "search", "[", "q", "]", "Action:", "calculate", "[", "q", "]">> >>,
      << <<"Thought:", "think", "Final Answer:", "ans">> >>,
      << <<"hello">> >>,
      << <<>> >> }

LLMOutputs == {Concat(s) : s \in LLMStreams}

\* model outputs that hold a Final Answer: line and an Action: name[arg]
ActionThenFinal ==
    <<"Thought:", "think", "Action:", "search", "[", "q", "]", "Final Answer:", "ans">>
FinalThenAction == <<"Final Answer:", "ans", "Action:", "search", "[", "q", "]">>

\* what the awaited model call of OptimalReActAgent may return
OptimalOutputs == LLMOutputs \cup {ActionThenFinal, FinalThenAction}

\* the user input of the n-th stream call on the instance
QueryOf(n) == <<"query", ToString(n)>>

Agents == {"optimal", "custom", "react"}

\* ------------------------------------------------------------------- state
VARIABLES
    agent,            \* which class the instance is
    max_iterations,   \* constructor argument
    sparse_reasoning, \* constructor argument of OptimalReActAgent
    history_length,   \* constructor argument of the custom ReActAgent
    pc,               \* where the generator of the stream call stands
    i,                \* the loop variable of stream
    messages,         \* history (agents.py) / self.messages
    action_history,   \* self.action_history, a deque(maxlen=history_length)
    last_action,      \* self._last_action
    frame,            \* the locals of the running stream call
    events,           \* the events the running stream call has yielded
    llm_calls,        \* model calls made by the running stream call
    tool_calls,       \* tool invocations made by the running stream call
    total_calls,      \* model calls over all stream calls
    streams,          \* stream calls started on the instance
    guard_log,        \* the actions the loop guard saw in the running stream
                      \* call, each with its verdict
    tools_map,        \* self.tools_map / self._tool_map / self.tools
    raised,           \* what the model or a tool raised in the running stream
                      \* call, with the iteration
    user_input,       \* the argument of the running stream call
    parked            \* the locals of a second stream call on the instance
                      \* that is suspended while the running one takes its steps

vars == <<agent, max_iterations, sparse_reasoning, history_length, pc, i,
          messages, action_history, last_action, frame, events, llm_calls,
          tool_calls, total_calls, streams, guard_log, tools_map, raised,
          user_input, parked>>

config == <<agent, max_iterations, sparse_reasoning, history_length, tools_map>>

Msg(role, content) == [role |-> role, content |-> content]
Ev(type, content) == [type |-> type, content |-> content]

SystemPrompt == <<"system_prompt">>

\* iteration: the value of i when the locals were last assigned
NoFrame ==
    [iteration |-> 0, llm_output |-> <<>>, thought |-> None, full_text |-> <<>>,
     action_name |-> None, action_input |-> None, observation |-> <<>>]

\* the tool lists an OptimalReActAgent is constructed with
ToolLists == {{}, ToolNames}

\* mutant of ToolsMap: a registry that knows every name the model writes
ToolsMapWithGhost(given) == given \cup {"finish", "ghost", "Finish", "FINISH", "Search"}

\* mutant of ToolsMap: the tools given and nothing else
ToolsMapAsGiven(given) == given

\* agents.py: tools_map is the tools given and the reserved finish
ToolsMap(given) == given \cup {"finish"}

\* custom_react_agent.py: _tool_map of the list the example passes, finish in it
CustomToolMap == ToolNames \cup {"finish"}

\* react_agent.py: self.tools, the list as given
ReactTools == ToolNames

Init ==
    /\ agent \in Agents
    /\ max_iterations \in 0..MaxIter
    /\ sparse_reasoning \in (IF agent = "optimal" THEN BOOLEAN ELSE {FALSE})
    /\ history_length \in (IF agent = "custom" THEN 0..MaxWindow ELSE {0})
    /\ pc = "idle"
    /\ i = 0
    /\ messages = (IF agent = "react" THEN <<Msg("system", SystemPrompt)>> ELSE <<>>)
    /\ action_history = <<>>
    /\ last_action = None
    /\ frame = NoFrame
    /\ events = <<>>
    /\ llm_calls = 0
    /\ tool_calls = 0
    /\ total_calls = 0
    /\ streams = 0
    /\ guard_log = <<>>
    /\ tools_map \in (IF agent = "optimal" THEN {ToolsMap(given) : given \in ToolLists}
                      ELSE IF agent = "custom" THEN {CustomToolMap}
                      ELSE {ReactTools})
    /\ raised = <<>>
    /\ user_input = <<>>
    /\ parked = None

\* mutants of InBudget: the loop ends one iteration early, one late
InBudgetShort(k, n) == k < n
InBudgetLong(k, n) == k <= n + 1

\* for i in range(1, max_iterations + 1)
InBudget(k, n) == k <= n

\* A stream call may begin when no other is running on the instance and the
\* model calls it may make fit the budget of the run.
MayStart(a) ==
    /\ agent = a
    /\ pc \in {"idle", "done", "sync_failed"}
    /\ streams < MaxStreams
    /\ total_calls + max_iterations <= MaxCalls
    /\ streams' = streams + 1

\* ------------------------------------------- agents.py: OptimalReActAgent
\* mutant of Truthy: the empty string counts as true
TruthyAlways(text) == TRUE

\* if thought: / action_input or llm_output : a non-empty string is true
Truthy(text) == text # <<>>

\* mutant of FormatCheck: the dense rule is applied in both modes
FormatCheckDenseOnly(sparse, thought, action_executed) ==
    IF IsNone(thought) \/ ~action_executed THEN "dense" ELSE "ok"

\* step 9: the reasoning mode's check of one step
FormatCheck(sparse, thought, action_executed) ==
    IF ~sparse /\ (IsNone(thought) \/ ~action_executed) THEN "dense"
    ELSE IF sparse /\ IsNone(thought) /\ ~action_executed THEN "sparse"
    ELSE "ok"

\* mutant of FormatError: the violation is reported as an info event
FormatErrorAsInfo(kind, llm_output) ==
    Ev("info", [kind |-> (IF kind = "dense" THEN "dense_format" ELSE "sparse_format"),
                output |-> llm_output])

FormatError(kind, llm_output) ==
    Ev("error", [kind |-> (IF kind = "dense" THEN "dense_format" ELSE "sparse_format"),
                 output |-> llm_output])

OptStart ==
    /\ MayStart("optimal")
    /\ messages' = <<Msg("system", SystemPrompt), Msg("human", QueryOf(streams + 1))>>
    /\ i' = 1
    /\ pc' = "loop"
    /\ raised' = <<>>
    /\ events' = <<>>
    /\ frame' = NoFrame
    /\ llm_calls' = 0
    /\ tool_calls' = 0
    /\ user_input' = QueryOf(streams + 1)
    /\ UNCHANGED <<config, parked, action_history, last_action, total_calls, guard_log>>

\* stream_sync with no event loop running in the calling thread: a new loop
\* drives the generator of stream event by event
StreamSync ==
    /\ MayStart("optimal")
    /\ messages' = <<Msg("system", SystemPrompt), Msg("human", QueryOf(streams + 1))>>
    /\ i' = 1
    /\ pc' = "loop"
    /\ raised' = <<>>
    /\ events' = <<>>
    /\ frame' = NoFrame
    /\ llm_calls' = 0
    /\ tool_calls' = 0
    /\ user_input' = QueryOf(streams + 1)
    /\ UNCHANGED <<config, parked, action_history, last_action, total_calls, guard_log>>

\* stream_sync with an event loop running in the calling thread:
\* get_running_loop() returns it, run_until_complete raises RuntimeError on the
\* running loop before the generator of stream takes its first step, so no
\* stream call is started
StreamSyncNested ==
    /\ agent = "optimal"
    /\ pc \in {"idle", "done", "sync_failed"}
    /\ UNCHANGED streams
    /\ messages' = <<>>
    /\ i' = 0
    /\ pc' = "sync_failed"
    /\ raised' = <<>>
    /\ events' = <<>>
    /\ frame' = NoFrame
    /\ llm_calls' = 0
    /\ tool_calls' = 0
    /\ user_input' = QueryOf(streams + 1)
    /\ UNCHANGED <<config, parked, action_history, last_action, total_calls, guard_log>>

\* what the consumer of the running call has received: the events of stream,
\* or the one error event of stream_sync's except Exception
SyncStreamingError == Ev("error", [kind |-> "sync_streaming", failure |-> "RuntimeError"])

Received ==
    IF pc = "sync_failed" THEN <<SyncStreamingError>> ELSE events

\* the contents of the final_answer events of a sequence of events, joined
FinalAnswerContent(evs) ==
    LET answers == SelectSeq(evs, LAMBDA e : e.type = "final_answer")
    IN  Concat([k \in DOMAIN answers |-> answers[k].content])

FirstError(evs) == Min({k \in DOMAIN evs : evs[k].type = "error"})

\* invoke: the content of the AIMessage it returns for the events it is
\* handed by stream_sync: lead is the fixed text, body the event's content
Invoke(received) ==
    IF \E k \in DOMAIN received : received[k].type = "error"
    THEN [lead |-> "[ERROR] Agent failed:", body |-> received[FirstError(received)].content]
    ELSE IF \E k \in DOMAIN received : received[k].type = "final_answer"
    THEN [lead |-> "", body |-> FinalAnswerContent(received)]
    ELSE [lead |-> "[ERROR] Agent stopped without providing a Final Answer.",
          body |-> <<>>]

\* async_invoke: the same over the events of stream
AsyncInvoke(evs) ==
    IF \E k \in DOMAIN evs : evs[k].type = "error"
    THEN [lead |-> "[ERROR] Agent failed:", body |-> evs[FirstError(evs)].content]
    ELSE IF \E k \in DOMAIN evs : evs[k].type = "final_answer"
    THEN [lead |-> "", body |-> FinalAnswerContent(evs)]
    ELSE [lead |-> "[ERROR] Agent stopped without providing a Final Answer or an explicit error event.",
          body |-> <<>>]

\* mutant of OptLoop: the model call is started in the step that yields the
\* info event, without waiting for the consumer to ask for the next event
OptLoopEager ==
    /\ agent = "optimal"
    /\ pc = "loop"
    /\ IF InBudget(i, max_iterations)
       THEN /\ events' = Append(events, Ev("info", [iteration |-> i, of |-> max_iterations]))
            /\ pc' = "llm"
            /\ llm_calls' = llm_calls + 1
            /\ total_calls' = total_calls + 1
       ELSE /\ events' = Append(events, Ev("error", [kind |-> "max_iterations",
                                                     of |-> max_iterations]))
            /\ pc' = "done"
            /\ UNCHANGED <<llm_calls, total_calls>>
    /\ UNCHANGED <<config, user_input, parked, raised, streams, i, messages, action_history, last_action, frame,
                   tool_calls, guard_log>>

\* mutant of OptLoop: an iteration is entered without its info event
OptLoopNoInfo ==
    /\ agent = "optimal"
    /\ pc = "loop"
    /\ IF InBudget(i, max_iterations)
       THEN /\ events' = events
            /\ pc' = "call_llm"
       ELSE /\ events' = Append(events, Ev("error", [kind |-> "max_iterations",
                                                     of |-> max_iterations]))
            /\ pc' = "done"
    /\ UNCHANGED <<config, user_input, parked, raised, streams, i, messages, action_history, last_action, frame,
                   llm_calls, tool_calls, total_calls, guard_log>>

\* for i in range(1, max_iterations + 1): yield info, or step 10
OptLoop ==
    /\ agent = "optimal"
    /\ pc = "loop"
    /\ IF InBudget(i, max_iterations)
       THEN /\ events' = Append(events, Ev("info", [iteration |-> i, of |-> max_iterations]))
            /\ pc' = "call_llm"
       ELSE /\ events' = Append(events, Ev("error", [kind |-> "max_iterations",
                                                     of |-> max_iterations]))
            /\ pc' = "done"
    /\ UNCHANGED <<config, user_input, parked, raised, streams, i, messages, action_history, last_action, frame,
                   llm_calls, tool_calls, total_calls, guard_log>>

\* The consumer stops consuming: the generator stays suspended at the yield
\* of its info or action_input event and is never resumed.
OptClose ==
    /\ agent = "optimal"
    /\ pc \in {"call_llm", "call_tool"}
    /\ pc' = "closed"
    /\ UNCHANGED <<config, user_input, parked, raised, streams, i, messages, action_history, last_action, frame,
                   events, llm_calls, tool_calls, total_calls, guard_log>>

\* await self.llm.ainvoke(history)
OptCallLLM ==
    /\ agent = "optimal"
    /\ pc = "call_llm"
    /\ pc' = "llm"
    /\ llm_calls' = llm_calls + 1
    /\ total_calls' = total_calls + 1
    /\ UNCHANGED <<config, user_input, parked, raised, streams, i, messages, action_history, last_action, frame,
                   events, tool_calls, guard_log>>

\* mutant of OptLLMReturn: the mode's check of step 9 is made before the
\* action is taken, so a dense output without a Thought ends the stream at
\* once
OptLLMReturnCheckFirst(llm_output) ==
    /\ agent = "optimal"
    /\ pc = "llm"
    /\ LET parsed == ParseAgentOutput(llm_output)
           thought == parsed.thought
           hist == IF sparse_reasoning THEN Append(messages, Msg("ai", llm_output))
                   ELSE messages
           evs == IF ~IsNone(thought) /\ Truthy(Val(thought))
                  THEN Append(events, Ev("thought", Val(thought)))
                  ELSE events
       IN  /\ messages' = hist
           /\ frame' = [NoFrame EXCEPT !.iteration = i,
                                       !.llm_output = llm_output,
                                       !.thought = thought,
                                       !.action_name = parsed.action_name,
                                       !.action_input = parsed.action_input]
           /\ IF parsed.action_name = Some("finish")
              THEN /\ events' = Append(evs, Ev("final_answer",
                                    IF Truthy(Val(parsed.action_input))
                                    THEN Val(parsed.action_input) ELSE llm_output))
                   /\ pc' = "done"
                   /\ UNCHANGED i
              ELSE IF /\ ~IsNone(parsed.action_name) /\ ~IsNone(parsed.action_input)
                      /\ (sparse_reasoning \/ ~IsNone(thought))
              THEN /\ events' = Append(evs, Ev("action_input",
                                    <<Val(parsed.action_name), Val(parsed.action_input)>>))
                   /\ pc' = "call_tool"
                   /\ UNCHANGED i
              ELSE LET check == FormatCheck(sparse_reasoning, thought, FALSE)
                   IN  IF check = "ok"
                       THEN /\ events' = evs
                            /\ i' = i + 1
                            /\ pc' = "loop"
                       ELSE /\ events' = Append(evs, FormatError(check, llm_output))
                            /\ pc' = "done"
                            /\ UNCHANGED i
    /\ UNCHANGED <<config, user_input, parked, raised, streams, action_history, last_action, llm_calls, tool_calls,
                   total_calls, guard_log>>

\* mutant of OptLLMReturn: in sparse mode the model turn is kept only when it
\* names an action
OptLLMReturnKeepsActions(llm_output) ==
    /\ agent = "optimal"
    /\ pc = "llm"
    /\ LET parsed == ParseAgentOutput(llm_output)
           thought == parsed.thought
           hist == IF sparse_reasoning /\ ~IsNone(parsed.action_name)
                   THEN Append(messages, Msg("ai", llm_output))
                   ELSE messages
           evs == IF ~IsNone(thought) /\ Truthy(Val(thought))
                  THEN Append(events, Ev("thought", Val(thought)))
                  ELSE events
       IN  /\ messages' = hist
           /\ frame' = [NoFrame EXCEPT !.iteration = i,
                                       !.llm_output = llm_output,
                                       !.thought = thought,
                                       !.action_name = parsed.action_name,
                                       !.action_input = parsed.action_input]
           /\ IF parsed.action_name = Some("finish")
              THEN /\ events' = Append(evs, Ev("final_answer",
                                    IF Truthy(Val(parsed.action_input))
                                    THEN Val(parsed.action_input) ELSE llm_output))
                   /\ pc' = "done"
                   /\ UNCHANGED i
              ELSE IF ~IsNone(parsed.action_name) /\ ~IsNone(parsed.action_input)
              THEN /\ events' = Append(evs, Ev("action_input",
                                    <<Val(parsed.action_name), Val(parsed.action_input)>>))
                   /\ pc' = "call_tool"
                   /\ UNCHANGED i
              ELSE LET check == FormatCheck(sparse_reasoning, thought, FALSE)
                   IN  IF check = "ok"
                       THEN /\ events' = evs
                            /\ i' = i + 1
                            /\ pc' = "loop"
                       ELSE /\ events' = Append(evs, FormatError(check, llm_output))
                            /\ pc' = "done"
                            /\ UNCHANGED i
    /\ UNCHANGED <<config, user_input, parked, raised, streams, action_history, last_action, llm_calls, tool_calls,
                   total_calls, guard_log>>

\* the model answered: steps 1 to 5 and, when no action is taken, step 9
OptLLMReturn(llm_output) ==
    /\ agent = "optimal"
    /\ pc = "llm"
    /\ LET parsed == ParseAgentOutput(llm_output)
           thought == parsed.thought
           hist == IF sparse_reasoning THEN Append(messages, Msg("ai", llm_output))
                   ELSE messages
           evs == IF ~IsNone(thought) /\ Truthy(Val(thought))
                  THEN Append(events, Ev("thought", Val(thought)))
                  ELSE events
       IN  /\ messages' = hist
           /\ frame' = [NoFrame EXCEPT !.iteration = i,
                                       !.llm_output = llm_output,
                                       !.thought = thought,
                                       !.action_name = parsed.action_name,
                                       !.action_input = parsed.action_input]
           /\ IF parsed.action_name = Some("finish")
              THEN /\ events' = Append(evs, Ev("final_answer",
                                    IF Truthy(Val(parsed.action_input))
                                    THEN Val(parsed.action_input) ELSE llm_output))
                   /\ pc' = "done"
                   /\ UNCHANGED i
              ELSE IF ~IsNone(parsed.action_name) /\ ~IsNone(parsed.action_input)
              THEN /\ events' = Append(evs, Ev("action_input",
                                    <<Val(parsed.action_name), Val(parsed.action_input)>>))
                   /\ pc' = "call_tool"
                   /\ UNCHANGED i
              ELSE LET check == FormatCheck(sparse_reasoning, thought, FALSE)
                   IN  IF check = "ok"
                       THEN /\ events' = evs
                            /\ i' = i + 1
                            /\ pc' = "loop"
                       ELSE /\ events' = Append(evs, FormatError(check, llm_output))
                            /\ pc' = "done"
                            /\ UNCHANGED i
    /\ UNCHANGED <<config, user_input, parked, raised, streams, action_history, last_action, llm_calls, tool_calls,
                   total_calls, guard_log>>

\* mutant of OptLLMRaise: the handler yields the error and does not return
OptLLMRaiseNoReturn ==
    /\ agent = "optimal"
    /\ pc = "llm"
    /\ raised' = Append(raised, [what |-> "model", iteration |-> i])
    /\ events' = Append(events, Ev("error", [kind |-> "unexpected", iteration |-> i]))
    /\ i' = i + 1
    /\ pc' = "loop"
    /\ UNCHANGED <<config, user_input, parked, streams, messages, action_history, last_action, frame,
                   llm_calls, tool_calls, total_calls, guard_log>>

\* ainvoke raised: except Exception
OptLLMRaise ==
    /\ agent = "optimal"
    /\ pc = "llm"
    /\ raised' = Append(raised, [what |-> "model", iteration |-> i])
    /\ events' = Append(events, Ev("error", [kind |-> "unexpected", iteration |-> i]))
    /\ pc' = "done"
    /\ UNCHANGED <<config, user_input, parked, streams, i, messages, action_history, last_action, frame,
                   llm_calls, tool_calls, total_calls, guard_log>>

\* mutant of OptCallTool: the tool is started and the loop goes on without
\* awaiting its result
OptCallToolNoAwait ==
    /\ agent = "optimal"
    /\ pc = "call_tool"
    /\ IF Val(frame.action_name) \in tools_map
       THEN /\ pc' = "loop"
            /\ i' = i + 1
            /\ tool_calls' = tool_calls + 1
            /\ UNCHANGED events
       ELSE /\ events' = Append(events, Ev("error", [kind |-> "tool_not_found",
                                                     tool |-> Val(frame.action_name)]))
            /\ pc' = "done"
            /\ UNCHANGED <<tool_calls, i>>
    /\ UNCHANGED <<config, user_input, parked, raised, streams, messages, action_history, last_action, frame,
                   llm_calls, total_calls, guard_log>>

\* _execute_tool: the lookup; an unknown name raises ToolNotFoundError
OptCallTool ==
    /\ agent = "optimal"
    /\ pc = "call_tool"
    /\ IF Val(frame.action_name) \in tools_map
       THEN /\ pc' = "tool"
            /\ tool_calls' = tool_calls + 1
            /\ UNCHANGED events
       ELSE /\ events' = Append(events, Ev("error", [kind |-> "tool_not_found",
                                                     tool |-> Val(frame.action_name)]))
            /\ pc' = "done"
            /\ UNCHANGED tool_calls
    /\ UNCHANGED <<config, user_input, parked, raised, streams, i, messages, action_history, last_action, frame,
                   llm_calls, total_calls, guard_log>>

\* the tool returned: steps 7 to 9
OptToolReturn(observation) ==
    /\ agent = "optimal"
    /\ pc = "tool"
    /\ observation \in ToolReturns(Val(frame.action_name))
    /\ messages' = (IF sparse_reasoning THEN messages
                    ELSE Append(messages, Msg("ai", frame.llm_output)))
                   \o <<Msg("human", <<"Observation:">> \o observation)>>
    /\ LET evs == Append(events, Ev("observation", observation))
           check == FormatCheck(sparse_reasoning, frame.thought, TRUE)
       IN  IF check = "ok"
           THEN /\ events' = evs
                /\ i' = i + 1
                /\ pc' = "loop"
           ELSE /\ events' = Append(evs, FormatError(check, frame.llm_output))
                /\ pc' = "done"
                /\ UNCHANGED i
    /\ frame' = [frame EXCEPT !.observation = observation]
    /\ UNCHANGED <<config, user_input, parked, raised, streams, action_history, last_action, llm_calls,
                   tool_calls, total_calls, guard_log>>

\* mutant of OptToolRaise: the handler yields the error and does not return
OptToolRaiseNoReturn ==
    /\ agent = "optimal"
    /\ pc = "tool"
    /\ ToolMayRaise(Val(frame.action_name))
    /\ raised' = Append(raised, [what |-> "tool", iteration |-> i])
    /\ events' = Append(events, Ev("error", [kind |-> "tool_execution",
                                             tool |-> Val(frame.action_name),
                                             input |-> Val(frame.action_input),
                                             failure |-> ToolFailure]))
    /\ i' = i + 1
    /\ pc' = "loop"
    /\ UNCHANGED <<config, user_input, parked, streams, messages, action_history, last_action, frame,
                   llm_calls, tool_calls, total_calls, guard_log>>

\* the tool raised: ToolExecutionError
OptToolRaise ==
    /\ agent = "optimal"
    /\ pc = "tool"
    /\ ToolMayRaise(Val(frame.action_name))
    /\ raised' = Append(raised, [what |-> "tool", iteration |-> i])
    /\ events' = Append(events, Ev("error", [kind |-> "tool_execution",
                                             tool |-> Val(frame.action_name),
                                             input |-> Val(frame.action_input),
                                             failure |-> ToolFailure]))
    /\ pc' = "done"
    /\ UNCHANGED <<config, user_input, parked, streams, i, messages, action_history, last_action, frame,
                   llm_calls, tool_calls, total_calls, guard_log>>

\* Two stream calls on one OptimalReActAgent, as two tasks of one event loop:
\* the loop runs one of them at a time and changes task where the running
\* one awaits.  What a call keeps in its own frame goes with it; history is
\* a local of stream (line 172), and stream assigns no field of self.
OptLocals ==
    [pc |-> pc, i |-> i, history |-> messages, frame |-> frame, events |-> events,
     llm_calls |-> llm_calls, tool_calls |-> tool_calls, raised |-> raised,
     user_input |-> user_input]

\* await self.llm.ainvoke, await self._execute_tool
AwaitPoints == {"llm", "tool"}

\* what the model returns to the two calls: an action with its Thought, a
\* Thought alone, a final answer, an action without a Thought
PairOutputs ==
    { ThoughtSearch, <<"Thought:", "think">>,
      <<"Thought:", "think", "Final Answer:", "ans">>,
      <<"Action:", "search", "[", "q", "]">> }

\* a second stream call begins while the first awaits the model or a tool
OptStartSecond ==
    /\ agent = "optimal"
    /\ pc \in AwaitPoints
    /\ IsNone(parked)
    /\ streams < MaxStreams
    /\ total_calls + max_iterations <= MaxCalls
    /\ parked' = Some(OptLocals)
    /\ streams' = streams + 1
    /\ user_input' = QueryOf(streams + 1)
    /\ messages' = <<Msg("system", SystemPrompt), Msg("human", QueryOf(streams + 1))>>
    /\ i' = 1
    /\ pc' = "loop"
    /\ raised' = <<>>
    /\ events' = <<>>
    /\ frame' = NoFrame
    /\ llm_calls' = 0
    /\ tool_calls' = 0
    /\ UNCHANGED <<config, action_history, last_action, total_calls, guard_log>>

\* mutant of OptSwitch: the history is kept on the instance, so it does not
\* change with the task
OptSwitchSharedHistory ==
    /\ agent = "optimal"
    /\ ~IsNone(parked)
    /\ pc \in AwaitPoints \cup {"done"}
    /\ Val(parked).pc \in AwaitPoints
    /\ parked' = Some(OptLocals)
    /\ pc' = Val(parked).pc
    /\ i' = Val(parked).i
    /\ messages' = messages
    /\ frame' = Val(parked).frame
    /\ events' = Val(parked).events
    /\ llm_calls' = Val(parked).llm_calls
    /\ tool_calls' = Val(parked).tool_calls
    /\ raised' = Val(parked).raised
    /\ user_input' = Val(parked).user_input
    /\ UNCHANGED <<config, action_history, last_action, total_calls, streams, guard_log>>

\* the event loop changes task: the running call awaits or is over, and the
\* other call's await is ready
OptSwitch ==
    /\ agent = "optimal"
    /\ ~IsNone(parked)
    /\ pc \in AwaitPoints \cup {"done"}
    /\ Val(parked).pc \in AwaitPoints
    /\ parked' = Some(OptLocals)
    /\ pc' = Val(parked).pc
    /\ i' = Val(parked).i
    /\ messages' = Val(parked).history
    /\ frame' = Val(parked).frame
    /\ events' = Val(parked).events
    /\ llm_calls' = Val(parked).llm_calls
    /\ tool_calls' = Val(parked).tool_calls
    /\ raised' = Val(parked).raised
    /\ user_input' = Val(parked).user_input
    /\ UNCHANGED <<config, action_history, last_action, total_calls, streams, guard_log>>

\* -------------------------------- custom_react_agent.py: ReActAgent
LastIsTool(msgs) == msgs # <<>> /\ msgs[Len(msgs)].role = "tool"

\* mutant of HasSuccess: no observation counts as successful
HasSuccessNever(text) == FALSE

\* "SUCCESS" in content
HasSuccess(text) == Positions(text, "SUCCESS") # {}

\* re.search(r"\[STDOUT\]:\s*(.*)", content): the text behind the first mark
StdoutOf(text) ==
    IF Positions(text, "[STDOUT]:") = {} THEN None
    ELSE Some(After(text, Min(Positions(text, "[STDOUT]:"))))

\* the repair of _stream_thought_action: a synthetic finish action
RepairedAction(full_response, msgs) ==
    LET success == LastIsTool(msgs) /\ HasSuccess(msgs[Len(msgs)].content)
        content == msgs[Len(msgs)].content
        final_answer_content ==
            IF success
            THEN IF IsNone(StdoutOf(content)) THEN content ELSE Val(StdoutOf(content))
            ELSE full_response
        synthetic_thought ==
            IF success THEN <<"forced finish from the observation">>
            ELSE <<"forced finish to deliver">> \o full_response
    IN  << <<"Thought:">> \o synthetic_thought \o <<"Action:", "finish", "[">>
              \o final_answer_content \o <<"]">>,
           <<"finish">>, final_answer_content >>

\* mutant of StreamThoughtAction: only a non-blank response is repaired
StreamThoughtActionBlankFails(full_response, msgs) ==
    LET parsed_action == ParseAction(full_response)
    IN  IF ~IsNone(parsed_action) /\ Truthy(Val(parsed_action)[2])
        THEN [last_action |-> parsed_action,
              yielded |-> <<Ev("thought_action", Val(parsed_action)[1])>>]
        ELSE IF Truthy(full_response)
        THEN LET repaired == RepairedAction(full_response, msgs)
             IN  [last_action |-> Some(repaired),
                  yielded |-> <<Ev("thought_action", repaired[1])>>]
        ELSE [last_action |-> None, yielded |-> <<>>]

\* _stream_thought_action once the model's fragments are in: what it leaves
\* in self._last_action and the events it yields
StreamThoughtAction(full_response, msgs) ==
    LET parsed_action == ParseAction(full_response)
    IN  IF ~IsNone(parsed_action) /\ Truthy(Val(parsed_action)[2])
        THEN [last_action |-> parsed_action,
              yielded |-> <<Ev("thought_action", Val(parsed_action)[1])>>]
        ELSE IF Truthy(full_response) \/ LastIsTool(msgs)
        THEN LET repaired == RepairedAction(full_response, msgs)
             IN  [last_action |-> Some(repaired),
                  yielded |-> <<Ev("thought_action", repaired[1])>>]
        ELSE [last_action |-> None, yielded |-> <<>>]

\* current_action_signature = (action_name.lower(), action_input)
Signature(action_name, action_input) == <<LowerText(action_name), action_input>>

\* mutant of IsFinish: the name is compared as written
IsFinishExact(action_name) == action_name = <<"finish">>

\* mutant of IsFinish: no action is taken for finish
IsFinishNever(action_name) == FALSE

\* action_name.lower() == "finish"
IsFinish(action_name) == LowerText(action_name) = <<"finish">>

\* mutant of InWindow: only the oldest entry is compared
InWindowOldest(sig, window) == window # <<>> /\ window[1] = sig

\* current_action_signature in self.action_history
InWindow(sig, window) == \E k \in DOMAIN window : window[k] = sig

\* mutant of LoopDetected: the guard reports no loop
LoopDetectedNever(action_name, action_input, window) == FALSE

\* action_name.lower() != "finish" and the signature is in the window
LoopDetected(action_name, action_input, window) ==
    ~IsFinish(action_name) /\ InWindow(Signature(action_name, action_input), window)

\* mutant of DequeAppend: a list that is never trimmed
DequeAppendNoEvict(window, sig, maxlen) == Append(window, sig)

\* mutant of DequeAppend: a full window keeps its entries and drops the new one
DequeAppendKeepOldest(window, sig, maxlen) ==
    IF Len(window) >= maxlen THEN window ELSE Append(window, sig)

\* deque(maxlen=history_length).append
DequeAppend(window, sig, maxlen) ==
    IF maxlen = 0 THEN window
    ELSE IF Len(window) >= maxlen THEN Append(Tail(window), sig)
    ELSE Append(window, sig)

\* mutant of CusStart: messages is not cleared
CusStartNoClear ==
    /\ MayStart("custom")
    /\ messages' = Append(messages, Msg("human", QueryOf(streams + 1)))
    /\ action_history' = <<>>
    /\ i' = 1
    /\ pc' = "loop"
    /\ raised' = <<>>
    /\ events' = <<>>
    /\ frame' = NoFrame
    /\ llm_calls' = 0
    /\ tool_calls' = 0
    /\ guard_log' = <<>>
    /\ user_input' = QueryOf(streams + 1)
    /\ UNCHANGED <<config, parked, last_action, total_calls>>

\* stream: clear the memory, store the query
CusStart ==
    /\ MayStart("custom")
    /\ messages' = <<Msg("human", QueryOf(streams + 1))>>
    /\ action_history' = <<>>
    /\ i' = 1
    /\ pc' = "loop"
    /\ raised' = <<>>
    /\ events' = <<>>
    /\ frame' = NoFrame
    /\ llm_calls' = 0
    /\ tool_calls' = 0
    /\ guard_log' = <<>>
    /\ user_input' = QueryOf(streams + 1)
    /\ UNCHANGED <<config, parked, last_action, total_calls>>

\* the loop head: self._last_action = None and the model call, or the
\* maximum-steps error
CusLoop ==
    /\ agent = "custom"
    /\ pc = "loop"
    /\ IF InBudget(i, max_iterations)
       THEN /\ last_action' = None
            /\ pc' = "llm"
            /\ llm_calls' = llm_calls + 1
            /\ total_calls' = total_calls + 1
            /\ UNCHANGED events
       ELSE /\ events' = Append(events, Ev("error", [kind |-> "max_iterations",
                                                     of |-> max_iterations]))
            /\ pc' = "done"
            /\ UNCHANGED <<last_action, llm_calls, total_calls>>
    /\ UNCHANGED <<config, user_input, parked, raised, streams, i, messages, action_history, frame, tool_calls, guard_log>>

\* the model's fragments are in: parse, repair, yield thought_action
CusLLMReturn(chunks) ==
    /\ agent = "custom"
    /\ pc = "llm"
    /\ LET r == StreamThoughtAction(Concat(chunks), messages)
       IN  /\ last_action' = r.last_action
           /\ IF r.yielded # <<>>
              THEN /\ events' = events \o r.yielded
                   /\ pc' = "resume"
              ELSE /\ events' = Append(events, Ev("error", [kind |-> "no_action"]))
                   /\ pc' = "done"
    /\ frame' = [NoFrame EXCEPT !.llm_output = Concat(chunks)]
    /\ UNCHANGED <<config, user_input, parked, raised, streams, i, messages, action_history, llm_calls,
                   tool_calls, total_calls, guard_log>>

\* astream raised: except Exception
CusLLMRaise ==
    /\ agent = "custom"
    /\ pc = "llm"
    /\ raised' = Append(raised, [what |-> "model", iteration |-> i])
    /\ events' = Append(events, Ev("error", [kind |-> "exception"]))
    /\ pc' = "done"
    /\ UNCHANGED <<config, user_input, parked, streams, i, messages, action_history, last_action, frame,
                   llm_calls, tool_calls, total_calls, guard_log>>

\* _execute_tool for a name the map lacks
NotFoundObservation(action_name) == <<"Error:", "Tool", "not", "found">> \o action_name

ToolFound(action_name) == Len(action_name) = 1 /\ action_name[1] \in tools_map

\* the generator resumed after thought_action: the loop guard, finish, and
\* the start of _execute_tool
CusGuard ==
    /\ agent = "custom"
    /\ pc = "resume"
    /\ IF IsNone(last_action)
       THEN /\ events' = Append(events, Ev("error", [kind |-> "no_action"]))
            /\ pc' = "done"
            /\ UNCHANGED <<messages, action_history, frame, tool_calls, guard_log>>
       ELSE LET full_text == Val(last_action)[1]
                action_name == Val(last_action)[2]
                action_input == Val(last_action)[3]
                sig == Signature(action_name, action_input)
            IN  IF LoopDetected(action_name, action_input, action_history)
                THEN /\ events' = Append(events, Ev("error",
                            [kind |-> "loop_detected", iteration |-> i,
                             action_name |-> action_name, action_input |-> action_input]))
                     /\ guard_log' = Append(guard_log, [action_name |-> action_name,
                                   action_input |-> action_input, ok |-> FALSE])
                     /\ pc' = "done"
                     /\ UNCHANGED <<messages, action_history, frame, tool_calls>>
                ELSE /\ action_history' = DequeAppend(action_history, sig, history_length)
                     /\ guard_log' = Append(guard_log, [action_name |-> action_name,
                                   action_input |-> action_input, ok |-> TRUE])
                     /\ IF IsFinish(action_name)
                        THEN /\ messages' = Append(messages, Msg("ai", full_text))
                             /\ events' = Append(events, Ev("final_answer", action_input))
                             /\ pc' = "done"
                             /\ UNCHANGED <<frame, tool_calls>>
                        ELSE IF ToolFound(action_name)
                        THEN /\ frame' = [frame EXCEPT !.full_text = full_text,
                                                       !.action_name = Some(action_name),
                                                         !.action_input = Some(action_input)]
                             /\ pc' = "tool"
                             /\ tool_calls' = tool_calls + 1
                             /\ UNCHANGED <<messages, events>>
                        ELSE /\ frame' = [frame EXCEPT !.full_text = full_text,
                                              !.action_name = Some(action_name),
                                              !.action_input = Some(action_input),
                                              !.observation = NotFoundObservation(action_name)]
                             /\ events' = Append(events, Ev("observation",
                                                  NotFoundObservation(action_name)))
                             /\ pc' = "observed"
                             /\ UNCHANGED <<messages, tool_calls>>
    /\ UNCHANGED <<config, user_input, parked, raised, streams, i, last_action, llm_calls, total_calls>>

\* tool.ainvoke returned: yield observation
CusToolReturn(observation) ==
    /\ agent = "custom"
    /\ pc = "tool"
    /\ observation \in ToolReturns(Val(frame.action_name)[1])
    /\ frame' = [frame EXCEPT !.observation = observation]
    /\ events' = Append(events, Ev("observation", observation))
    /\ pc' = "observed"
    /\ UNCHANGED <<config, user_input, parked, raised, streams, i, messages, action_history, last_action, llm_calls,
                   tool_calls, total_calls, guard_log>>

\* tool.ainvoke raised: the error text is the observation
\* mutant of CusToolRaise: the exception of the tool ends the stream
CusToolRaiseFatal ==
    /\ agent = "custom"
    /\ pc = "tool"
    /\ ToolMayRaise(Val(frame.action_name)[1])
    /\ events' = Append(events, Ev("error", [kind |-> "exception"]))
    /\ raised' = Append(raised, [what |-> "tool", iteration |-> i])
    /\ pc' = "done"
    /\ UNCHANGED <<config, user_input, parked, streams, i, messages, action_history, last_action, llm_calls,
                   tool_calls, total_calls, guard_log, frame>>

CusToolRaise ==
    /\ agent = "custom"
    /\ pc = "tool"
    /\ ToolMayRaise(Val(frame.action_name)[1])
    /\ LET observation == <<"Tool", "Execution", "Error", "for">> \o Val(frame.action_name)
       IN  /\ frame' = [frame EXCEPT !.observation = observation]
           /\ events' = Append(events, Ev("observation", observation))
    /\ raised' = Append(raised, [what |-> "tool", iteration |-> i])
    /\ pc' = "observed"
    /\ UNCHANGED <<config, user_input, parked, streams, i, messages, action_history, last_action, llm_calls,
                   tool_calls, total_calls, guard_log>>

\* mutant of CusObserved: the observation turn is stored before the action turn
CusObservedSwapped ==
    /\ agent = "custom"
    /\ pc = "observed"
    /\ messages' = messages \o <<Msg("tool", frame.observation),
                                 Msg("ai", frame.full_text)>>
    /\ i' = i + 1
    /\ pc' = "loop"
    /\ UNCHANGED <<config, user_input, parked, raised, streams, action_history, last_action, frame, events, llm_calls,
                   tool_calls, total_calls, guard_log>>

\* the generator resumed after observation: step 4, the memory
CusObserved ==
    /\ agent = "custom"
    /\ pc = "observed"
    /\ messages' = messages \o <<Msg("ai", frame.full_text),
                                 Msg("tool", frame.observation)>>
    /\ i' = i + 1
    /\ pc' = "loop"
    /\ UNCHANGED <<config, user_input, parked, raised, streams, action_history, last_action, frame, events, llm_calls,
                   tool_calls, total_calls, guard_log>>

\* Two stream calls on one custom ReActAgent, as two generators driven in
\* turn.  A call keeps its loop variable, its position and what it has read
\* into locals; messages, action_history and _last_action are attributes of
\* the instance (lines 66-74) and stay where they are when the other call
\* runs.
CusLocals ==
    [pc |-> pc, i |-> i, frame |-> frame, events |-> events, llm_calls |-> llm_calls,
     tool_calls |-> tool_calls, raised |-> raised, guard_log |-> guard_log,
     user_input |-> user_input]

\* astream, the yield of thought_action, _execute_tool
CusSuspended == {"llm", "resume", "tool"}

\* what the model streams to the two calls
PairStreams ==
    { <<ThoughtSearch>>,
      << <<"Thought:", "think", "Action:", "calculate", "[", "q", "]">> >>,
      << <<"Thought:", "think", "Action:", "finish", "[", "ans", "]">> >> }

\* mutant of CusStartSecond: the second call adds its query to the
\* conversation and clears nothing
CusStartSecondNoClear ==
    /\ agent = "custom"
    /\ pc \in CusSuspended
    /\ IsNone(parked)
    /\ streams < MaxStreams
    /\ total_calls + max_iterations <= MaxCalls
    /\ parked' = Some(CusLocals)
    /\ streams' = streams + 1
    /\ user_input' = QueryOf(streams + 1)
    /\ messages' = Append(messages, Msg("human", QueryOf(streams + 1)))
    /\ UNCHANGED action_history
    /\ i' = 1
    /\ pc' = "loop"
    /\ raised' = <<>>
    /\ events' = <<>>
    /\ frame' = NoFrame
    /\ llm_calls' = 0
    /\ tool_calls' = 0
    /\ guard_log' = <<>>
    /\ UNCHANGED <<config, last_action, total_calls>>

\* a second stream call begins while the first is suspended: lines 208-210
\* run on the attributes the first call uses
CusStartSecond ==
    /\ agent = "custom"
    /\ pc \in CusSuspended
    /\ IsNone(parked)
    /\ streams < MaxStreams
    /\ total_calls + max_iterations <= MaxCalls
    /\ parked' = Some(CusLocals)
    /\ streams' = streams + 1
    /\ user_input' = QueryOf(streams + 1)
    /\ messages' = <<Msg("human", QueryOf(streams + 1))>>
    /\ action_history' = <<>>
    /\ i' = 1
    /\ pc' = "loop"
    /\ raised' = <<>>
    /\ events' = <<>>
    /\ frame' = NoFrame
    /\ llm_calls' = 0
    /\ tool_calls' = 0
    /\ guard_log' = <<>>
    /\ UNCHANGED <<config, last_action, total_calls>>

\* the other call is resumed: the running one is suspended or over
CusSwitch ==
    /\ agent = "custom"
    /\ ~IsNone(parked)
    /\ pc \in CusSuspended \cup {"done"}
    /\ Val(parked).pc \in CusSuspended
    /\ parked' = Some(CusLocals)
    /\ pc' = Val(parked).pc
    /\ i' = Val(parked).i
    /\ frame' = Val(parked).frame
    /\ events' = Val(parked).events
    /\ llm_calls' = Val(parked).llm_calls
    /\ tool_calls' = Val(parked).tool_calls
    /\ raised' = Val(parked).raised
    /\ guard_log' = Val(parked).guard_log
    /\ user_input' = Val(parked).user_input
    /\ UNCHANGED <<config, messages, action_history, last_action, total_calls, streams>>

\* ------------------------------------------- react_agent.py: ReActAgent
\* mutant of FinishAnswer: the argument of finish is not decoded
FinishAnswerRaw(action_input) == action_input

\* json.loads(action_input) and parsed.get("input", action_input): an object
\* with an input field gives that field, anything else the raw argument
FinishAnswer(action_input) ==
    IF Len(action_input) = 3 /\ action_input[1] = "{input:" /\ action_input[3] = "}"
    THEN <<action_input[2]>>
    ELSE action_input

\* for ch in text: yield {"type": type, "content": ch}
PerUnit(type, text) == [k \in DOMAIN text |-> Ev(type, <<text[k]>>)]

ReactStart ==
    /\ MayStart("react")
    /\ messages' = Append(messages, Msg("human", QueryOf(streams + 1)))
    /\ i' = 1
    /\ pc' = "loop"
    /\ raised' = <<>>
    /\ events' = <<>>
    /\ frame' = NoFrame
    /\ llm_calls' = 0
    /\ tool_calls' = 0
    /\ user_input' = QueryOf(streams + 1)
    /\ UNCHANGED <<config, parked, action_history, last_action, total_calls, guard_log>>

\* invoke of react_agent ReActAgent: the contents of the final_answer events
\* of the stream, joined; every other event is dropped
ReactInvoke(evs) == FinalAnswerContent(evs)

\* for _ in range(self.max_iterations): the model call, or the last error
ReactLoop ==
    /\ agent = "react"
    /\ pc = "loop"
    /\ IF InBudget(i, max_iterations)
       THEN /\ last_action' = None
            /\ pc' = "llm"
            /\ llm_calls' = llm_calls + 1
            /\ total_calls' = total_calls + 1
            /\ UNCHANGED events
       ELSE /\ events' = Append(events, Ev("error", [kind |-> "max_iterations"]))
            /\ pc' = "done"
            /\ UNCHANGED <<last_action, llm_calls, total_calls>>
    /\ UNCHANGED <<config, user_input, parked, raised, streams, i, messages, action_history, frame, tool_calls, guard_log>>

\* the model's fragments are in: one thought event for each, then the
\* action, the memory, finish, and the lookup of the tool
ReactLLMReturn(chunks) ==
    /\ agent = "react"
    /\ pc = "llm"
    /\ LET full_text == Concat(chunks)
           all_matches == FindAll(full_text, 1)
           evs == events \o [k \in DOMAIN chunks |-> Ev("thought", chunks[k])]
       IN  IF all_matches = <<>>
           THEN /\ events' = Append(evs, Ev("error", [kind |-> "no_action",
                                                      output |-> full_text]))
                /\ pc' = "done"
                /\ UNCHANGED <<messages, last_action, frame, tool_calls>>
           ELSE LET action_name == all_matches[Len(all_matches)][1]
                    action_input == all_matches[Len(all_matches)][2]
                IN  /\ last_action' = Some(<<full_text, <<action_name>>, action_input>>)
                    /\ IF Lower(action_name) = "finish"
                       THEN /\ events' = evs \o PerUnit("final_answer",
                                                        FinishAnswer(action_input))
                            /\ messages' = messages \o
                                   <<Msg("ai", full_text),
                                     Msg("ai", FinishAnswer(action_input))>>
                            /\ pc' = "done"
                            /\ UNCHANGED <<frame, tool_calls>>
                       ELSE IF action_name \notin tools_map
                       THEN /\ events' = Append(evs, Ev("error", [kind |-> "unknown_tool",
                                                                  tool |-> action_name]))
                            /\ messages' = Append(messages, Msg("ai", full_text))
                            /\ pc' = "done"
                            /\ UNCHANGED <<frame, tool_calls>>
                       ELSE /\ events' = evs
                            /\ messages' = Append(messages, Msg("ai", full_text))
                            /\ frame' = [NoFrame EXCEPT !.full_text = full_text,
                                                 !.action_name = Some(<<action_name>>),
                                                 !.action_input = Some(action_input)]
                            /\ pc' = "tool"
                            /\ tool_calls' = tool_calls + 1
    /\ UNCHANGED <<config, user_input, parked, raised, streams, i, action_history, llm_calls, total_calls, guard_log>>

\* astream raised: except Exception
ReactLLMRaise ==
    /\ agent = "react"
    /\ pc = "llm"
    /\ raised' = Append(raised, [what |-> "model", iteration |-> i])
    /\ events' = Append(events, Ev("error", [kind |-> "exception"]))
    /\ pc' = "done"
    /\ UNCHANGED <<config, user_input, parked, streams, i, messages, action_history, last_action, frame,
                   llm_calls, tool_calls, total_calls, guard_log>>

\* tool.invoke returned: the observation, unit by unit, and the memory
ReactToolReturn(observation) ==
    /\ agent = "react"
    /\ pc = "tool"
    /\ observation \in ToolReturns(Val(frame.action_name)[1])
    /\ events' = events \o PerUnit("observation", observation)
    /\ messages' = Append(messages, Msg("human", <<"Observation:">> \o observation))
    /\ i' = i + 1
    /\ pc' = "loop"
    /\ UNCHANGED <<config, user_input, parked, raised, streams, action_history, last_action, frame, llm_calls,
                   tool_calls, total_calls, guard_log>>

\* tool.invoke raised
\* mutant of ReactToolRaise: the exception of tool.invoke leaves the generator
ReactToolRaiseEscapes ==
    /\ agent = "react"
    /\ pc = "tool"
    /\ ToolMayRaise(Val(frame.action_name)[1])
    /\ raised' = Append(raised, [what |-> "tool", iteration |-> i])
    /\ pc' = "done"
    /\ UNCHANGED <<config, user_input, parked, streams, i, messages, action_history, last_action, frame,
                   events, llm_calls, tool_calls, total_calls, guard_log>>

\* tool.invoke raised: the except of the dispatch reports it and returns
ReactToolRaise ==
    /\ agent = "react"
    /\ pc = "tool"
    /\ ToolMayRaise(Val(frame.action_name)[1])
    /\ raised' = Append(raised, [what |-> "tool", iteration |-> i])
    /\ events' = Append(events, Ev("error", [kind |-> "tool_error",
                                             tool |-> Val(frame.action_name)]))
    /\ pc' = "done"
    /\ UNCHANGED <<config, user_input, parked, streams, i, messages, action_history, last_action, frame,
                   llm_calls, tool_calls, total_calls, guard_log>>


\* what a model call receives: history, [system] + self.messages, self.messages
ModelInput ==
    IF agent = "custom" THEN <<Msg("system", SystemPrompt)>> \o messages ELSE messages

Next ==
    \/ OptStart
    \/ StreamSync
    \/ StreamSyncNested
    \/ OptLoop
    \/ OptCallLLM
    \/ \E llm_output \in OptimalOutputs : OptLLMReturn(llm_output)
    \/ OptLLMRaise
    \/ OptCallTool
    \/ \E observation \in Observations : OptToolReturn(observation)
    \/ OptToolRaise
    \/ CusStart
    \/ CusLoop
    \/ \E chunks \in LLMStreams : CusLLMReturn(chunks)
    \/ CusLLMRaise
    \/ CusGuard
    \/ \E observation \in Observations : CusToolReturn(observation)
    \/ CusToolRaise
    \/ CusObserved
    \/ ReactStart
    \/ ReactLoop
    \/ \E chunks \in LLMStreams : ReactLLMReturn(chunks)
    \/ ReactLLMRaise
    \/ \E observation \in Observations : ReactToolReturn(observation)
    \/ ReactToolRaise

Spec == Init /\ [][Next]_vars

\* an instance of OptimalReActAgent alone
InitOptimal == agent = "optimal" /\ Init

NextOptimal ==
    \/ OptStart
    \/ StreamSync
    \/ StreamSyncNested
    \/ OptLoop
    \/ OptCallLLM
    \/ \E llm_output \in OptimalOutputs : OptLLMReturn(llm_output)
    \/ OptLLMRaise
    \/ OptCallTool
    \/ \E observation \in Observations : OptToolReturn(observation)
    \/ OptToolRaise

SpecOptimal == InitOptimal /\ [][NextOptimal]_vars

\* OptimalReActAgent with a consumer that may stop consuming the stream
NextConsumer ==
    \/ OptStart
    \/ StreamSync
    \/ StreamSyncNested
    \/ OptLoop
    \/ OptCallLLM
    \/ \E llm_output \in OptimalOutputs : OptLLMReturn(llm_output)
    \/ OptLLMRaise
    \/ OptCallTool
    \/ \E observation \in Observations : OptToolReturn(observation)
    \/ OptToolRaise
    \/ OptClose

SpecConsumer == InitOptimal /\ [][NextConsumer]_vars

\* two concurrent stream calls on one OptimalReActAgent
NextOptimalPair ==
    \/ OptStart
    \/ OptLoop
    \/ OptCallLLM
    \/ \E llm_output \in PairOutputs : OptLLMReturn(llm_output)
    \/ OptLLMRaise
    \/ OptCallTool
    \/ \E observation \in Observations : OptToolReturn(observation)
    \/ OptToolRaise
    \/ OptStartSecond
    \/ OptSwitch

SpecOptimalPair == InitOptimal /\ [][NextOptimalPair]_vars


\* an instance of the ReActAgent of custom_react_agent.py alone
InitCustom == agent = "custom" /\ Init

NextCustom ==
    \/ CusStart
    \/ CusLoop
    \/ \E chunks \in LLMStreams : CusLLMReturn(chunks)
    \/ CusLLMRaise
    \/ CusGuard
    \/ \E observation \in Observations : CusToolReturn(observation)
    \/ CusToolRaise
    \/ CusObserved

SpecCustom == InitCustom /\ [][NextCustom]_vars

\* two stream calls in progress on one custom ReActAgent
NextCustomPair ==
    \/ CusStart
    \/ CusLoop
    \/ \E chunks \in PairStreams : CusLLMReturn(chunks)
    \/ CusLLMRaise
    \/ CusGuard
    \/ \E observation \in Observations : CusToolReturn(observation)
    \/ CusToolRaise
    \/ CusObserved
    \/ CusStartSecond
    \/ CusSwitch

\* the instance the two calls run on keeps the widest loop-guard window
InitCustomPair == InitCustom /\ history_length = MaxWindow

SpecCustomPair == InitCustomPair /\ [][NextCustomPair]_vars

\* react_agent.py alone: the instance is a ReActAgent of that module
InitReact == agent = "react" /\ Init

NextReact ==
    \/ ReactStart
    \/ ReactLoop
    \/ \E chunks \in LLMStreams : ReactLLMReturn(chunks)
    \/ ReactLLMRaise
    \/ \E observation \in Observations : ReactToolReturn(observation)
    \/ ReactToolRaise

SpecReact == InitReact /\ [][NextReact]_vars

\* ================================================================ claims
Terminal(e) == e.type \in {"final_answer", "error"}

TerminalEvents == {k \in DOMAIN events : Terminal(events[k])}

ErrorEvents == {k \in DOMAIN events : events[k].type = "error"}

FinalEvents == {k \in DOMAIN events : events[k].type = "final_answer"}

LastEvent == events[Len(events)]

IsMaxError(e) == e.type = "error" /\ e.content.kind = "max_iterations"

\* C1: a stream of OptimalReActAgent or of the custom ReActAgent that was
\* driven to completion holds exactly one event of type final_answer or
\* error: never one of each, never two, never none.
C1_ExactlyOneTerminal ==
    (agent \in {"optimal", "custom"} /\ pc = "done")
        => Cardinality(TerminalEvents) = 1

C1_Witness ==
    /\ agent = "custom"
    /\ pc = "done"
    /\ llm_calls = 2
    /\ \E k \in DOMAIN events : events[k].type = "observation"
    /\ LastEvent.type = "final_answer"

\* C2: in OptimalReActAgent and the custom ReActAgent the first final_answer
\* or error event is the last event of the stream: once it is there the
\* stream has ended, and the stream call yields no further event, calls the
\* model no more and dispatches no tool.
\* the step is one of the running stream call: it starts neither a stream
\* call nor a stream_sync call
WithinCall == streams' = streams /\ pc' # "sync_failed"

TerminalIsLastStep ==
    (agent \in {"optimal", "custom"} /\ TerminalEvents # {})
        => /\ pc = "done"
           /\ TerminalEvents = {Len(events)}
           /\ (WithinCall
                 => /\ events' = events
                    /\ llm_calls' = llm_calls
                    /\ tool_calls' = tool_calls)

C2_TerminalIsLast == [][TerminalIsLastStep]_vars

C2_Witness ==
    /\ agent = "optimal"
    /\ pc = "done"
    /\ LastEvent.type = "error"
    /\ LastEvent.content.kind = "unexpected"
    /\ i < max_iterations
    /\ streams < MaxStreams

\* C3: with budget N = max_iterations, a stream in which no iteration
\* reached finish or a fatal condition ends, after N model calls, with
\* exactly one error event, the report that the maximum of iterations was
\* reached, as its last event (OptimalReActAgent and the custom ReActAgent
\* name N in it); with N = 0 that error is the only event and no model call
\* is made.  All three agents.
ReachedFinish ==
    \/ FinalEvents # {}
    \/ agent = "react" /\ ~IsNone(last_action) /\ IsFinish(Val(last_action)[2])

Exhausted ==
    /\ pc = "done"
    /\ ~ReachedFinish
    /\ \A k \in ErrorEvents : IsMaxError(events[k])

C3_IterationBudget ==
    /\ Exhausted
         => /\ ErrorEvents = {Len(events)}
            /\ IsMaxError(LastEvent)
            /\ agent # "react" => LastEvent.content.of = max_iterations
            /\ llm_calls = max_iterations
            /\ max_iterations = 0 => Len(events) = 1
    /\ \A k \in ErrorEvents :
          IsMaxError(events[k]) => (k = Len(events) /\ llm_calls = max_iterations)

C3_Witness ==
    /\ Exhausted
    /\ max_iterations = 3
    /\ llm_calls = 3
    /\ Len(events) > 3

\* C4: one stream call of OptimalReActAgent or of the custom ReActAgent
\* makes one model call for each iteration it enters, so at most
\* max_iterations, and at most one tool dispatch for each model call; and it
\* terminates: every step of the call moves it strictly forward in a
\* bounded order of (iteration, position).
PcRank ==
    CASE pc = "loop" -> 0
      [] pc = "call_llm" -> 1
      [] pc = "llm" -> 2
      [] pc \in {"resume", "call_tool"} -> 3
      [] pc = "tool" -> 4
      [] pc = "observed" -> 5
      [] OTHER -> 0

Rank == IF pc = "done" THEN 6 * (max_iterations + 2) ELSE 6 * i + PcRank

CallsBounded ==
    /\ llm_calls <= max_iterations
    /\ tool_calls <= llm_calls
    /\ llm_calls = (IF pc \in {"idle", "loop", "call_llm"} \/ Exhausted THEN i - 1 ELSE i)
                   + (IF pc = "idle" THEN 1 ELSE 0)

BoundedCallsStep ==
    agent \in {"optimal", "custom"}
        => /\ CallsBounded
           /\ CallsBounded'
           /\ Rank <= 6 * (max_iterations + 2)
           /\ (WithinCall => Rank' > Rank)

C4_BoundedCalls == [][BoundedCallsStep]_vars

C4_Witness ==
    /\ agent = "optimal"
    /\ pc = "done"
    /\ llm_calls = max_iterations
    /\ tool_calls = max_iterations
    /\ max_iterations = 3

\* C5: under the dense policy of OptimalReActAgent a step whose output has
\* reasoning and no resolvable action, or a resolvable action (finish, an
\* unregistered or a failing tool included) and no reasoning, ends the
\* stream with the dense format-violation error.
StepDone == agent = "optimal" /\ frame.iteration >= 1 /\ pc \in {"loop", "done"}

HasThought == ~IsNone(frame.thought)

HasAction == ~IsNone(frame.action_name)

IsFormatError(e, kind) ==
    /\ e.type = "error"
    /\ e.content.kind = kind
    /\ e.content.output = frame.llm_output

C5_DenseOneOfTwo ==
    (StepDone /\ ~sparse_reasoning /\ (HasThought # HasAction))
        => (pc = "done" /\ IsFormatError(LastEvent, "dense_format"))

\* C6: under the sparse policy of OptimalReActAgent a step whose output has
\* a Thought and no action is accepted: the step dispatches no tool, yields
\* no event but (at most) its thought, and the loop goes on to the next
\* iteration, which is the next model call or the iteration-exhausted error.
ThoughtOnly(f) == ~IsNone(f.thought) /\ IsNone(f.action_name)

SparseThoughtOnlyStep ==
    /\ (agent = "optimal" /\ sparse_reasoning /\ pc = "llm" /\ frame' # frame
          /\ ThoughtOnly(frame'))
        => /\ pc' = "loop"
           /\ i' = i + 1
           /\ tool_calls' = tool_calls
           /\ \/ events' = events
              \/ events' = Append(events, Ev("thought", Val(frame'.thought)))
    /\ (agent = "optimal" /\ pc = "loop")
        => \/ pc' = "call_llm" /\ InBudget(i, max_iterations)
                               /\ events' = Append(events, Ev("info",
                                      [iteration |-> i, of |-> max_iterations]))
           \/ pc' = "done" /\ i = max_iterations + 1 /\ IsMaxError(events'[Len(events')])

C6_SparseThoughtOnly == [][SparseThoughtOnlyStep]_vars

C6_Witness ==
    /\ agent = "optimal"
    /\ sparse_reasoning
    /\ pc = "call_llm"
    /\ i = 2
    /\ frame.iteration = 1
    /\ ThoughtOnly(frame)
    /\ tool_calls = 0

\* C7: in OptimalReActAgent a format violation (sparse: neither Thought nor
\* action; dense: either of them missing) ends the stream with one error
\* event whose content holds the raw model output in full.
FormatViolation ==
    IF sparse_reasoning THEN ~HasThought /\ ~HasAction
    ELSE ~HasThought \/ ~HasAction

C7_ViolationCarriesOutput ==
    (StepDone /\ FormatViolation)
        => /\ pc = "done"
           /\ ErrorEvents = {Len(events)}
           /\ LastEvent.content.kind \in {"dense_format", "sparse_format"}
           /\ LastEvent.content.output = frame.llm_output

\* The loop guard of the custom ReActAgent, read off the log of one stream
\* call: the signature of an entry, the entries the guard accepted, and the
\* last n of a sequence.
SigOf(e) == <<LowerText(e.action_name), e.action_input>>

FinishNames == {<<"finish">>, <<"Finish">>, <<"FINISH">>}

NonFinish(e) == e.action_name \notin FinishNames

LastN(seq, n) == SubSeq(seq, Max({1, Len(seq) - n + 1}), Len(seq))

RECURSIVE AcceptedSigs(_)
AcceptedSigs(log) ==
    IF log = <<>> THEN <<>>
    ELSE LET rest == AcceptedSigs(SubSeq(log, 1, Len(log) - 1))
             e == log[Len(log)]
         IN  IF e.ok THEN Append(rest, SigOf(e)) ELSE rest

\* the first k entries of the log are k issues of one non-finish signature
SameRun(k) ==
    /\ k \in DOMAIN guard_log
    /\ \A j \in 1..k : NonFinish(guard_log[j]) /\ SigOf(guard_log[j]) = SigOf(guard_log[1])

\* C8 as claimed: with window size W, the same non-finish signature issued
\* W + 1 times in a row is accepted exactly W times and reported as a loop
\* on the next repeat.
C8_AcceptedWTimes ==
    (agent = "custom" /\ history_length >= 1)
        => \A k \in DOMAIN guard_log :
              SameRun(k) => (guard_log[k].ok <=> k <= history_length)

\* C8 as amended: with window size W >= 1 the same non-finish signature
\* issued in a row is accepted once and reported as a loop on its first
\* repeat, whatever W is; with W = 0 the guard never reports a loop.
C8_AcceptedOnce ==
    agent = "custom"
        => /\ \A k \in DOMAIN guard_log :
                 SameRun(k) => (guard_log[k].ok <=> (k = 1 \/ history_length = 0))
           /\ \A k \in 2..Len(guard_log) :
                 (NonFinish(guard_log[k]) /\ SigOf(guard_log[k]) = SigOf(guard_log[k - 1]))
                     => (guard_log[k].ok <=> history_length = 0)

C8_Witness ==
    /\ agent = "custom"
    /\ history_length = 2
    /\ SameRun(2)
    /\ ~guard_log[2].ok
    /\ pc = "done"

\* C9: in the custom ReActAgent a non-finish action is reported as a loop
\* exactly when its signature (name lowercased, argument as written) is
\* among the last W signatures the guard accepted in this stream call;
\* otherwise it is appended to the window, which then is the last W accepted
\* signatures: the oldest is evicted, and a signature repeated after W other
\* actions is accepted again.
C9_LoopIffInWindow ==
    agent = "custom"
        => /\ \A k \in DOMAIN guard_log :
                 NonFinish(guard_log[k])
                     => (~guard_log[k].ok <=>
                           InWindow(SigOf(guard_log[k]),
                                    LastN(AcceptedSigs(SubSeq(guard_log, 1, k - 1)),
                                          history_length)))
           /\ action_history = LastN(AcceptedSigs(guard_log), history_length)

C9_Witness ==
    /\ agent = "custom"
    /\ history_length = 1
    /\ Len(guard_log) = 3
    /\ SigOf(guard_log[3]) = SigOf(guard_log[1])
    /\ SigOf(guard_log[2]) # SigOf(guard_log[1])
    /\ guard_log[3].ok
    /\ NonFinish(guard_log[3])
    /\ action_history = <<SigOf(guard_log[3])>>

\* C10: in the custom ReActAgent a finish action, however it is capitalised
\* and whatever the window holds, is never reported as a loop: the guard
\* accepts it and the stream ends with the final_answer event carrying its
\* argument.
C10_FinishExempt ==
    agent = "custom"
        => \A k \in DOMAIN guard_log :
              ~NonFinish(guard_log[k])
                  => /\ guard_log[k].ok
                     /\ k = Len(guard_log)
                     /\ pc = "done"
                     /\ LastEvent = Ev("final_answer", guard_log[k].action_input)
                     /\ ErrorEvents = {}

C10_Witness ==
    /\ agent = "custom"
    /\ pc = "done"
    /\ Len(guard_log) = 3
    /\ guard_log[3].action_name = <<"FINISH">>
    /\ Len(action_history) = 2
    /\ LastEvent.type = "final_answer"

\* The events of one type, and the events after the last info event.
EventsOfType(type) == {k \in DOMAIN events : events[k].type = type}

LastInfo == Max({0} \cup EventsOfType("info"))

\* the k-th action the guard saw repeats a signature of its window
Repeated(k) ==
    /\ NonFinish(guard_log[k])
    /\ InWindow(SigOf(guard_log[k]),
                LastN(AcceptedSigs(SubSeq(guard_log, 1, k - 1)), history_length))

\* C11: in the custom ReActAgent an action the loop guard rejects (a
\* non-finish action whose signature is in the window) is not dispatched, has
\* no observation event, adds nothing to messages, and ends the stream with
\* one error event that names the action and the iteration number.
C11_RejectedNotDispatched ==
    agent = "custom"
        => \A k \in DOMAIN guard_log :
              Repeated(k)
                  => /\ k = Len(guard_log)
                     /\ i = k
                     /\ pc = "done"
                     /\ LastEvent = Ev("error",
                            [kind |-> "loop_detected", iteration |-> k,
                             action_name |-> guard_log[k].action_name,
                             action_input |-> guard_log[k].action_input])
                     /\ ErrorEvents = {Len(events)}
                     /\ Cardinality(EventsOfType("observation")) = k - 1
                     /\ tool_calls <= k - 1
                     /\ Len(messages) = 2 * k - 1
                     /\ messages[Len(messages)].role \in {"human", "tool"}

C11_Witness ==
    /\ agent = "custom"
    /\ history_length = 1
    /\ Len(guard_log) = 2
    /\ Repeated(2)
    /\ guard_log[2].action_name = <<"search">>
    /\ tool_calls = 1
    /\ LastEvent.type = "error"

\* C12: in OptimalReActAgent a step that names a tool the registry lacks
\* yields one action_input event for it and no observation, then the error
\* that the tool is not recognized, which ends the stream; no tool is
\* invoked for it.
NamesAbsentTool ==
    /\ agent = "optimal"
    /\ frame.iteration >= 1
    /\ ~IsNone(frame.action_name)
    /\ Val(frame.action_name) \notin ToolNames \cup {"finish"}

C12_ToolNotFound ==
    (NamesAbsentTool /\ pc # "call_tool")
        => /\ pc = "done"
           /\ LastEvent = Ev("error", [kind |-> "tool_not_found",
                                       tool |-> Val(frame.action_name)])
           /\ ErrorEvents = {Len(events)}
           /\ events[Len(events) - 1] =
                  Ev("action_input", <<Val(frame.action_name), Val(frame.action_input)>>)
           /\ {k \in EventsOfType("action_input") : k > LastInfo} = {Len(events) - 1}
           /\ {k \in EventsOfType("observation") : k > LastInfo} = {}
           /\ tool_calls = Cardinality(EventsOfType("observation"))

C12_Witness ==
    /\ NamesAbsentTool
    /\ pc = "done"
    /\ frame.iteration = 2
    /\ Val(frame.action_name) = "ghost"
    /\ tool_calls = 1
    /\ LastEvent.content.kind = "tool_not_found"

\* A dispatched tool of OptimalReActAgent raised: it was invoked and gave no
\* observation.  It reported a failure: it returned an ERROR report.
ToolRaised ==
    /\ agent = "optimal"
    /\ pc # "tool"
    /\ tool_calls > Cardinality(EventsOfType("observation"))

ToolReportedFailure == agent = "optimal" /\ frame.observation = ObsError

ToolFailureIsFatal ==
    /\ pc = "done"
    /\ LastEvent = Ev("error", [kind |-> "tool_execution",
                                tool |-> Val(frame.action_name),
                                input |-> Val(frame.action_input),
                                failure |-> ToolFailure])
    /\ ErrorEvents = {Len(events)}
    /\ events[Len(events) - 1] =
           Ev("action_input", <<Val(frame.action_name), Val(frame.action_input)>>)
    /\ llm_calls = frame.iteration

\* C13 as claimed: in OptimalReActAgent a dispatched tool that raises or
\* reports a failure is fatal: no observation event for the action, no
\* further model call, and one error event with the tool name, the argument
\* and the failure description ends the stream.
C13_FailureIsFatal == (ToolRaised \/ ToolReportedFailure) => ToolFailureIsFatal

\* C13 as amended: a dispatched tool that raises is fatal in that way; a
\* tool that returns an ERROR report has not failed for the loop: the report
\* is yielded as the observation of the action and appended to the history,
\* no tool-execution error is yielded, and the loop goes on to the next
\* iteration unless the dense format check ends the stream.
C13_RaiseIsFatal ==
    /\ ToolRaised => ToolFailureIsFatal
    /\ ToolReportedFailure
         => LET k == Max(EventsOfType("observation"))
            IN  /\ EventsOfType("observation") # {}
                /\ events[k] = Ev("observation", ObsError)
                /\ events[k - 1] = Ev("action_input",
                       <<Val(frame.action_name), Val(frame.action_input)>>)
                /\ \E m \in DOMAIN messages :
                       messages[m] = Msg("human", <<"Observation:">> \o ObsError)
                /\ \A e \in ErrorEvents : events[e].content.kind # "tool_execution"
                /\ IF HasThought \/ sparse_reasoning
                   THEN i = frame.iteration + 1
                   ELSE pc = "done" /\ IsFormatError(LastEvent, "dense_format")

C13_Witness ==
    /\ ToolRaised
    /\ pc = "done"
    /\ frame.iteration = 2
    /\ \E k \in EventsOfType("observation") : events[k].content = ObsError
    /\ LastEvent.content.kind = "tool_execution"

\* The events of OptimalReActAgent by iteration: the segment of an info
\* event is what follows it up to the next info event, the error of step 10
\* (which belongs to no iteration) left out; it is complete once the
\* iteration is over.
Types(seq) == [k \in DOMAIN seq |-> seq[k].type]

NextInfo(p) == Min({q \in EventsOfType("info") : q > p} \cup {Len(events) + 1})

SegmentEnd(p) ==
    LET e == NextInfo(p) - 1
    IN  IF e = Len(events) /\ e > p /\ IsMaxError(events[e]) THEN e - 1 ELSE e

Segment(p) == Types(SubSeq(events, p + 1, SegmentEnd(p)))

SegmentComplete(p) == NextInfo(p) <= Len(events) \/ pc \in {"loop", "done"}

AfterThought(seg) == IF seg # <<>> /\ seg[1] = "thought" THEN Tail(seg) ELSE seg

ClaimedShapes ==
    { <<"final_answer">>, <<"action_input", "observation">>,
      <<"action_input", "error">>, <<"error">>, <<>> }

ObservedThenError == <<"action_input", "observation", "error">>

EventOrder(shapes) ==
    agent = "optimal"
        => /\ events # <<>>
                => \/ events[1].type = "info"
                   \/ max_iterations = 0 /\ Len(events) = 1 /\ IsMaxError(events[1])
           /\ \A p \in EventsOfType("info") :
                 /\ events[p].content =
                        [iteration |-> Cardinality({q \in EventsOfType("info") : q <= p}),
                         of |-> max_iterations]
                 /\ IF SegmentComplete(p)
                    THEN /\ AfterThought(Segment(p)) \in shapes
                         /\ AfterThought(Segment(p)) = <<>> => sparse_reasoning
                    ELSE AfterThought(Segment(p)) \in {<<>>, <<"action_input">>}
           /\ \A k \in EventsOfType("observation") :
                 k > 1 /\ events[k - 1].type = "action_input"

\* C14 as claimed: the events of iteration i of OptimalReActAgent are one
\* info event carrying i and the budget, at most one thought event, then
\* exactly one of: final_answer; action_input followed by observation or by
\* a terminal error; a terminal error; nothing (sparse thought-only).  Every
\* observation directly follows an action_input, and the info events count
\* 1, 2, ..., k.
C14_OrderAsClaimed == EventOrder(ClaimedShapes)

\* C14 as amended: the same, with one more shape: in dense mode an action
\* of an output without a Thought is dispatched and observed before the
\* format check, so action_input, observation, and the terminal dense
\* format error follow the info event.
C14_EventOrder ==
    /\ EventOrder(ClaimedShapes \cup {ObservedThenError})
    /\ agent = "optimal"
         => \A p \in EventsOfType("info") :
               (SegmentComplete(p) /\ AfterThought(Segment(p)) = ObservedThenError)
                   => /\ ~sparse_reasoning
                      /\ Segment(p) = ObservedThenError
                      /\ pc = "done"
                      /\ IsFormatError(LastEvent, "dense_format")

C14_Witness ==
    /\ agent = "optimal"
    /\ pc = "done"
    /\ Types(events) = <<"info", "thought", "action_input", "observation",
                         "info", "thought", "final_answer">>
    /\ events[3].content = <<"calculate", <<"q">> >>
    /\ events[7].content = <<"ans">>

\* A model output that is final by its text: it holds finish[<answer>] or a
\* Final Answer: line; the answer is what stands in the brackets, or behind
\* the Final Answer: mark.
FinishAt(text) ==
    {p \in 1..(Len(text) - 1) :
        /\ text[p] = "finish"
        /\ text[p + 1] = "["
        /\ \E e \in (p + 2)..Len(text) : text[e] = "]"}

HasFinalAnswerLine(text) == Positions(text, "Final Answer:") # {}

IsFinalText(text) == FinishAt(text) # {} \/ HasFinalAnswerLine(text)

AnswerOf(text) ==
    IF HasFinalAnswerLine(text)
    THEN After(text, Min(Positions(text, "Final Answer:")))
    ELSE LET p == Min(FinishAt(text))
         IN  Between(text, p + 1, Min({e \in (p + 2)..Len(text) : text[e] = "]"}))

FinalStepDone ==
    /\ agent \in {"optimal", "custom"}
    /\ pc # "resume"
    /\ IsFinalText(frame.llm_output)

NoKeyword(text) == \A k \in DOMAIN text : text[k] \notin Keywords

TrailingPairs(text) ==
    {pq \in Positions(text, "Thought:") \X Positions(text, "Action:") :
        /\ pq[1] < pq[2]
        /\ pq[2] + 3 <= Len(text)
        /\ IsWord(text[pq[2] + 1])
        /\ text[pq[2] + 2] = "["
        /\ text[Len(text)] = "]"
        /\ NoKeyword(Between(text, pq[1], pq[2]))
        /\ NoKeyword(Between(text, pq[2] + 2, Len(text)))}

\* C16: for a model output with a well-formed trailing Thought: t /
\* Action: name[arg] pair, _parse_agent_output of OptimalReActAgent returns
\* the thought text t, the action name and the argument as written, and the
\* step is final exactly when the name is finish.
C16_ParsesTrailingPair ==
    (agent = "optimal" /\ frame.iteration >= 1)
        => \A pq \in TrailingPairs(frame.llm_output) :
              LET text == frame.llm_output
              IN  /\ frame.thought = Some(Between(text, pq[1], pq[2]))
                  /\ frame.action_name = Some(text[pq[2] + 1])
                  /\ frame.action_input = Some(Between(text, pq[2] + 2, Len(text)))
                  /\ pc # "call_tool"
                       => (text[pq[2] + 1] = "finish" <=> FinalEvents # {})

\* C17: for a response with two or more Action: name[arg] occurrences that
\* is not an exact trailing Thought/Action pair, the fallback of
\* _parse_action of the custom ReActAgent takes the last occurrence as the
\* action.
SeveralActions(text) ==
    /\ PerfectMatches(text) = {}
    /\ Cardinality({q \in 1..Len(text) : ActionAt(text, q)}) >= 2

C17_FallbackTakesLast ==
    (agent = "custom" /\ pc = "resume" /\ SeveralActions(frame.llm_output))
        => LET text == frame.llm_output
               q == Max({x \in 1..Len(text) : ActionAt(text, x)})
           IN  /\ Val(last_action)[2] = <<text[q + 1]>>
               /\ Val(last_action)[3] = Between(text, q + 2, ActionClose(text, q))

\* the name of the action the running step looks up or invokes
DispatchedName ==
    IF agent = "optimal" THEN Val(frame.action_name) ELSE Val(frame.action_name)[1]

\* C18: finish is never dispatched as a tool.  In the three agents a finish
\* action is taken by the loop before the registry is consulted: no lookup
\* and no invocation has the name finish, whether the tools given list a
\* finish tool (OptimalReActAgent adds it, the custom ReActAgent is given
\* it) or not (ReActAgent of react_agent.py), and the step that finishes
\* invokes no tool.
C18_FinishNeverDispatched ==
    /\ pc = "tool" => Lower(DispatchedName) # "finish"
    /\ pc = "call_tool" => DispatchedName # "finish"
    /\ (ReachedFinish /\ pc = "done" /\ llm_calls >= 1) => tool_calls < llm_calls

C18_Witness ==
    /\ agent = "react"
    /\ pc = "done"
    /\ llm_calls = 2
    /\ tool_calls = 1
    /\ ~IsNone(last_action)
    /\ Val(last_action)[2] = <<"FINISH">>
    /\ LastEvent = Ev("final_answer", <<"ans">>)

\* C19 as claimed: in every agent the first model call of a stream call
\* receives the system instruction and the new query and nothing else,
\* whatever stream calls were made on the agent before.
FirstModelCall == pc = "llm" /\ llm_calls = 1

FreshInput == <<Msg("system", SystemPrompt), Msg("human", QueryOf(streams))>>

C19_FreshEveryStream == FirstModelCall => ModelInput = FreshInput

\* C19 as amended: that holds for OptimalReActAgent and the custom
\* ReActAgent.  ReActAgent of react_agent.py keeps its messages: the first
\* model call of its n-th stream call receives the system instruction, the
\* turns of the n - 1 earlier calls, and the new query last.
C19_FreshButReact ==
    FirstModelCall
        => IF agent # "react" THEN ModelInput = FreshInput
           ELSE /\ ModelInput[1] = Msg("system", SystemPrompt)
                /\ ModelInput[Len(ModelInput)] = Msg("human", QueryOf(streams))
                /\ \A n \in 1..streams :
                      \E k \in DOMAIN ModelInput : ModelInput[k] = Msg("human", QueryOf(n))
                /\ streams = 1 => ModelInput = FreshInput

C19_Witness ==
    /\ agent = "custom"
    /\ FirstModelCall
    /\ streams = 2
    /\ total_calls = 2
    /\ ModelInput = FreshInput

\* C20: within one stream call of OptimalReActAgent in dense mode and of
\* the custom ReActAgent the history only grows at its end, and the turns of
\* a dispatched action, the model's action turn and then the observation
\* turn, are appended in one step after the tool has returned and its
\* observation was yielded; the only other turn appended is the custom
\* agent's finish turn.
AppendOnlyStep ==
    (/\ agent = "custom" \/ (agent = "optimal" /\ ~sparse_reasoning)
     /\ WithinCall
     /\ messages' # messages)
        => \/ /\ agent = "optimal"
              /\ pc = "tool"
              /\ events'[Len(events) + 1].type = "observation"
              /\ messages' = messages \o
                     <<Msg("ai", frame.llm_output),
                       Msg("human", <<"Observation:">> \o events'[Len(events) + 1].content)>>
           \/ /\ agent = "custom"
              /\ pc = "observed"
              /\ LastEvent.type = "observation"
              /\ messages' = messages \o
                     <<Msg("ai", frame.full_text), Msg("tool", LastEvent.content)>>
           \/ /\ agent = "custom"
              /\ pc = "resume"
              /\ events'[Len(events')].type = "final_answer"
              /\ messages' = Append(messages, Msg("ai", Val(last_action)[1]))

C20_AppendOnly == [][AppendOnlyStep]_vars

C20_Witness ==
    /\ agent = "custom"
    /\ pc = "loop"
    /\ Len(messages) = 5
    /\ messages[4].role = "ai"
    /\ messages[5] = Msg("tool", ObsStdout)
    /\ tool_calls = 2

\* the event a raised exception is reported by: the kind of error event of the
\* class, or the observation of the custom agent's _execute_tool
ReportsRaise(e, r) ==
    IF agent = "custom" /\ r.what = "tool"
    THEN /\ e.type = "observation"
         /\ Len(e.content) > 4
         /\ SubSeq(e.content, 1, 4) = <<"Tool", "Execution", "Error", "for">>
    ELSE /\ e.type = "error"
         /\ e.content.kind =
                (IF agent = "optimal"
                 THEN (IF r.what = "model" THEN "unexpected" ELSE "tool_execution")
                 ELSE IF agent = "custom" THEN "exception"
                 ELSE (IF r.what = "model" THEN "exception" ELSE "tool_error"))

\* the kinds of error event that report a raise, by class
RaiseKinds ==
    IF agent = "optimal" THEN {"unexpected", "tool_execution"}
    ELSE IF agent = "custom" THEN {"exception"}
    ELSE {"exception", "tool_error"}

IsRaiseReport(e) ==
    \/ e.type = "error" /\ e.content.kind \in RaiseKinds
    \/ /\ agent = "custom"
       /\ e.type = "observation"
       /\ Len(e.content) > 4
       /\ SubSeq(e.content, 1, 4) = <<"Tool", "Execution", "Error", "for">>

RaiseReports == {k \in DOMAIN events : IsRaiseReport(events[k])}

StreamPositions ==
    {"idle", "loop", "call_llm", "llm", "resume", "call_tool", "tool", "observed",
     "done", "sync_failed"}

\* C21: in all three agents nothing the model or a tool raises leaves stream
\* as an exception: every raise is reported by an event of its own (an error
\* event, or an observation of the custom agent's dispatch), the generator
\* stays at a position of its code, and after a reported raise the stream
\* has ended with that error as its last event or, for a tool of the custom
\* agent, goes on.
C21_NoEscape ==
    /\ pc \in StreamPositions
    /\ Cardinality(RaiseReports) = Len(raised)
    /\ \A k \in DOMAIN raised : \E j \in DOMAIN events : ReportsRaise(events[j], raised[k])
    /\ \A k \in DOMAIN raised :
          (agent # "custom" \/ raised[k].what = "model")
              => /\ pc = "done"
                 /\ k = Len(raised)
                 /\ ReportsRaise(LastEvent, raised[k])
                 /\ raised[k].iteration = i
    /\ \A k \in DOMAIN raised :
          (agent = "custom" /\ raised[k].what = "tool")
              => /\ raised[k].iteration <= max_iterations
                 /\ (pc = "observed" => raised[k].iteration <= i)

C21_Witness ==
    /\ agent = "custom"
    /\ Len(raised) = 2
    /\ raised[1].what = "tool"
    /\ raised[2].what = "model"
    /\ pc = "done"

IsSyncStreamingError(e) == e.type = "error" /\ e.content.kind = "sync_streaming"

\* C22: a call made through stream_sync hands its consumer the events of
\* stream, in their order and with their content, and none of its own,
\* whether or not an event loop runs in the calling thread; a call that is
\* over has handed over the terminal event of stream.
C22_SyncSameAsStream ==
    agent = "optimal"
        => /\ Received = events
           /\ \A k \in DOMAIN Received : ~IsSyncStreamingError(Received[k])
           /\ (pc \in {"done", "sync_failed"}
                  => events # <<>> /\ Terminal(LastEvent))

\* the text a sequence of fragments spells, joined from the left
RECURSIVE JoinAll(_)
JoinAll(fragments) ==
    IF fragments = <<>> THEN <<>>
    ELSE JoinAll(SubSeq(fragments, 1, Len(fragments) - 1)) \o fragments[Len(fragments)]

\* the fragments of the model turn that ends a sequence of react events: the
\* contents of its trailing thought events
RECURSIVE TrailingThoughts(_)
TrailingThoughts(evs) ==
    IF evs = <<>> \/ evs[Len(evs)].type # "thought" THEN <<>>
    ELSE Append(TrailingThoughts(SubSeq(evs, 1, Len(evs) - 1)), evs[Len(evs)].content)

\* the ways the model delivers one text: in several fragments, and otherwise
SameTextStreams ==
    {p \in {s \in LLMStreams : Len(s) > 1} \X LLMStreams :
        p[1] # p[2] /\ JoinAll(p[1]) = JoinAll(p[2])}

\* C23: in the two streaming agents the action of a model turn is the parse
\* of the whole text the fragments spell: the custom agent holds the joined
\* text of some fragment sequence and the action parsed from it, the react
\* agent dispatches the last action found in the join of the fragments it
\* yielded as thoughts (or reports that the join holds none), and two
\* fragment sequences that spell the same text give the same action.
C23_SplitInvariant ==
    /\ (agent = "custom" /\ pc = "resume")
          => \E s \in LLMStreams :
                /\ frame.llm_output = JoinAll(s)
                /\ last_action = StreamThoughtAction(JoinAll(s), messages).last_action
    /\ (agent = "react" /\ pc = "tool")
          => LET found == FindAll(JoinAll(TrailingThoughts(events)), 1)
             IN  /\ found # <<>>
                 /\ last_action = Some(<<JoinAll(TrailingThoughts(events)),
                                         <<found[Len(found)][1]>>,
                                         found[Len(found)][2]>>)
                 /\ frame.action_name = Some(<<found[Len(found)][1]>>)
                 /\ frame.action_input = Some(found[Len(found)][2])
    /\ (agent = "react" /\ pc = "done" /\ events # <<>> /\ LastEvent.type = "error"
            /\ LastEvent.content.kind = "no_action")
          => FindAll(JoinAll(TrailingThoughts(SubSeq(events, 1, Len(events) - 1))), 1) = <<>>
    /\ (agent \in {"custom", "react"} /\ pc = "llm")
          => \A p \in SameTextStreams :
                /\ FindAll(Concat(p[1]), 1) = FindAll(Concat(p[2]), 1)
                /\ StreamThoughtAction(Concat(p[1]), messages)
                       = StreamThoughtAction(Concat(p[2]), messages)

C23_Witness ==
    /\ agent = "react"
    /\ pc = "tool"
    /\ TrailingThoughts(events) = << <<"Thought:", "think", "Action:">>,
                                     <<"search", "[", "q", "]">> >>
    /\ frame.action_name = Some(<<"search">>)

RaisedBy(what) == {k \in DOMAIN raised : raised[k].what = what}

\* model calls of the running stream call that were started and have neither
\* returned nor raised
ModelCallsInFlight ==
    llm_calls - frame.iteration - Cardinality(RaisedBy("model"))

\* tool invocations that were started and have produced neither their
\* observation nor their error
DispatchesInFlight ==
    tool_calls - Cardinality(EventsOfType("observation")) - Cardinality(RaisedBy("tool"))

\* C24: a stream call of OptimalReActAgent is strictly sequential: at most one
\* model call or tool invocation is in flight, a tool is in flight only after
\* the model call of its iteration returned, and a model call is in flight only
\* when every earlier invocation produced its observation.
C24_Sequential ==
    agent = "optimal"
        => /\ ModelCallsInFlight \in {0, 1}
           /\ DispatchesInFlight \in {0, 1}
           /\ ModelCallsInFlight + DispatchesInFlight <= 1
           /\ (ModelCallsInFlight = 1) = (pc = "llm")
           /\ (DispatchesInFlight = 1) = (pc = "tool")
           /\ DispatchesInFlight = 1
                 => /\ frame.iteration = i
                    /\ llm_calls = i
                    /\ tool_calls <= i
           /\ ModelCallsInFlight = 1
                 => /\ llm_calls = i
                    /\ tool_calls = Cardinality(EventsOfType("observation"))
                    /\ tool_calls <= i - 1
           /\ tool_calls <= frame.iteration

C24_Witness ==
    /\ agent = "optimal"
    /\ pc = "llm"
    /\ i = 2
    /\ tool_calls = 1
    /\ Cardinality(EventsOfType("observation")) = 1

\* C25: a stream of the react agent that was driven to completion holds at
\* least one final_answer event and no error event, or exactly one error
\* event and no final_answer event.
C25_FinalOrOneError ==
    (agent = "react" /\ pc = "done")
        => \/ FinalEvents # {} /\ ErrorEvents = {}
           \/ FinalEvents = {} /\ Cardinality(ErrorEvents) = 1

RegistryStep ==
    agent = "optimal"
        => /\ \E given \in ToolLists : tools_map = given \cup {"finish"}
           /\ "finish" \in tools_map
           /\ tools_map' = tools_map

\* C26: the registry of an OptimalReActAgent is the tool list it was built
\* with and the reserved finish entry, for every list, and no step of stream
\* or stream_sync adds, removes or replaces an entry.
C26_RegistryFixed == [][RegistryStep]_vars

C26_Witness ==
    /\ agent = "optimal"
    /\ tools_map = {"finish"}
    /\ pc = "done"
    /\ FinalEvents # {}

ExecutionErrorObservation(action_name) ==
    <<"Tool", "Execution", "Error", "for">> \o action_name

\* the iteration of the custom agent's last dispatch, while the loop stands
\* between that dispatch and the answer of the next model call
DispatchIteration == IF pc = "observed" THEN i ELSE i - 1

\* the last dispatch of the custom agent named an unknown tool, or its tool raised
CusToolFailed ==
    /\ agent = "custom"
    /\ pc \in {"observed", "loop", "llm"}
    /\ ~IsNone(frame.action_name)
    /\ \/ ~ToolFound(Val(frame.action_name))
       \/ \E k \in RaisedBy("tool") : raised[k].iteration = DispatchIteration

CusFailureText ==
    IF ToolFound(Val(frame.action_name))
    THEN ExecutionErrorObservation(Val(frame.action_name))
    ELSE NotFoundObservation(Val(frame.action_name))

\* the n-th observation event of the running stream call
NthObservation(n) ==
    events[CHOOSE j \in EventsOfType("observation") :
               Cardinality({l \in EventsOfType("observation") : l <= j}) = n]

\* C27: in the custom agent a tool failure does not end the stream: the text
\* of an unknown name or of a raised exception is the observation event of
\* its iteration and the tool turn stored after the action turn, no error
\* event is yielded for it, the next model call is made while the budget
\* lasts, and a stream call holds at most max_iterations observations.
C27_FailureNotFatal ==
    agent = "custom"
        => /\ CusToolFailed
                 => /\ ErrorEvents = {}
                    /\ frame.observation = CusFailureText
                    /\ pc = "observed" => LastEvent = Ev("observation", CusFailureText)
                    /\ pc \in {"loop", "llm"}
                          => /\ Len(messages) >= 3
                             /\ SubSeq(messages, Len(messages) - 1, Len(messages))
                                    = <<Msg("ai", frame.full_text),
                                        Msg("tool", CusFailureText)>>
                    /\ pc = "llm"
                          => llm_calls = i /\ i = DispatchIteration + 1
                                           /\ i <= max_iterations
           /\ \A k \in RaisedBy("tool") :
                 /\ Cardinality(EventsOfType("observation")) >= raised[k].iteration
                 /\ NthObservation(raised[k].iteration).content
                        \in {ExecutionErrorObservation(<<n>>) : n \in ToolNames}
                 /\ \A e \in ErrorEvents :
                        \/ events[e].content.kind \in {"max_iterations", "loop_detected"}
                        \/ e = Len(events) /\ raised[Len(raised)].what = "model"
           /\ Cardinality(EventsOfType("observation")) <= max_iterations
           /\ Cardinality(RaisedBy("tool")) <= max_iterations

C27_Witness ==
    /\ agent = "custom"
    /\ pc = "llm"
    /\ i = 3
    /\ CusToolFailed
    /\ RaisedBy("tool") = {1}
    /\ \E k \in EventsOfType("observation") :
          events[k].content = NotFoundObservation(<<"ghost">>)

\* no action name is parsed from the response
NoActionName(text) ==
    \/ IsNone(ParseAction(text))
    \/ Val(ParseAction(text))[2] = <<>>

\* the response is a thought and nothing the parser takes for an action
ThoughtOnlyResponse(text) ==
    /\ text # <<>>
    /\ text[1] = "Thought:"
    /\ Positions(text, "Action:") = {}

\* the answer the repair takes from a successful observation
ObservationAnswer(content) ==
    IF Positions(content, "[STDOUT]:") = {} THEN content
    ELSE SubSeq(content, Min(Positions(content, "[STDOUT]:")) + 1, Len(content))

IsSuccessTurn(m) == m.role = "tool" /\ Positions(m.content, "SUCCESS") # {}

\* the stream ended on a repaired response: the turn stored before the
\* action turn of the finish
TurnBeforeFinish == messages[Len(messages) - 1]

NoActionErrors ==
    {k \in ErrorEvents : events[k].content.kind = "no_action"}

\* C28 as claimed: a thought-only response ends the stream with a
\* final_answer equal to the raw response, whatever was observed before.
C28_ThoughtOnlyIsRaw ==
    (agent = "custom" /\ pc = "done" /\ ThoughtOnlyResponse(frame.llm_output))
        => LastEvent = Ev("final_answer", frame.llm_output)

\* C28: in the custom agent a response with no action name is repaired into
\* a finish action whenever it is non-blank or the last stored message is a
\* tool observation; the error 'LLM failed to produce a complete Action'
\* occurs only in the first iteration and only for a blank response; a
\* thought-only response ends the stream with a final_answer that is the raw
\* response unless the last stored message is a successful observation, whose
\* content is then the answer.
C28_RepairedIntoFinish ==
    agent = "custom"
        => /\ (pc = "resume" /\ NoActionName(frame.llm_output))
                 => /\ frame.llm_output # <<>> \/ LastIsTool(messages)
                    /\ ~IsNone(last_action)
                    /\ Val(last_action)[2] = <<"finish">>
           /\ (pc = "llm" /\ i > 1) => LastIsTool(messages)
           /\ pc # "done" => (events = <<>> \/ LastEvent.type # "error")
           /\ (pc = "done" /\ NoActionErrors # {})
                 => /\ NoActionErrors = {Len(events)}
                    /\ i = 1
                    /\ llm_calls = 1
                    /\ frame.llm_output = <<>>
           /\ (pc = "done" /\ ThoughtOnlyResponse(frame.llm_output))
                 => /\ LastEvent.type = "final_answer"
                    /\ LastEvent.content =
                          (IF IsSuccessTurn(TurnBeforeFinish)
                           THEN ObservationAnswer(TurnBeforeFinish.content)
                           ELSE frame.llm_output)

C28_Witness ==
    /\ agent = "custom"
    /\ pc = "done"
    /\ i = 2
    /\ frame.llm_output = <<"Thought:", "think">>
    /\ TurnBeforeFinish.role = "tool"
    /\ ~IsSuccessTurn(TurnBeforeFinish)
    /\ LastEvent = Ev("final_answer", <<"Thought:", "think">>)

\* the response the custom agent just received holds no action, and the
\* message stored last is a tool observation holding SUCCESS
RepairAfterSuccess ==
    /\ agent = "custom"
    /\ pc = "resume"
    /\ NoActionName(frame.llm_output)
    /\ messages # <<>>
    /\ IsSuccessTurn(messages[Len(messages)])

\* the stream ended on such a repair
EndedAfterSuccess ==
    /\ agent = "custom"
    /\ pc = "done"
    /\ NoActionName(frame.llm_output)
    /\ FinalEvents # {}
    /\ Len(messages) >= 2
    /\ IsSuccessTurn(TurnBeforeFinish)

Dispatched ==
    LET passed == SelectSeq(guard_log, LAMBDA e : e.ok /\ NonFinish(e))
    IN  [k \in DOMAIN passed |-> SigOf(passed[k])]

\* C30: in the custom agent the loop-guard history never holds more than
\* history_length signatures nor one signature twice; two dispatches at most
\* history_length dispatches apart differ in signature; and a stream that
\* ended with the maximum-steps error made exactly max_iterations dispatches,
\* each with its observation.
C30_GuardHistory ==
    agent = "custom"
        => /\ Len(action_history) <= history_length
           /\ \A j, k \in DOMAIN action_history :
                 j # k => action_history[j] # action_history[k]
           /\ LET d == Dispatched
              IN  /\ \A j, k \in DOMAIN d :
                        (j < k /\ k - j <= history_length) => d[j] # d[k]
                  /\ (pc = "done" /\ IsMaxError(LastEvent))
                        => /\ Len(d) = max_iterations
                           /\ Cardinality(EventsOfType("observation")) = max_iterations

C30_Witness ==
    /\ agent = "custom"
    /\ pc = "done"
    /\ IsMaxError(LastEvent)
    /\ history_length = 1
    /\ Len(Dispatched) = 3
    /\ Dispatched[1] = Dispatched[3]
    /\ Len(action_history) = 1

\* A dense step of OptimalReActAgent whose output names a registered tool
\* and has no Thought.
ActionNoThought ==
    /\ agent = "optimal"
    /\ ~sparse_reasoning
    /\ frame.iteration >= 1
    /\ IsNone(frame.thought)
    /\ ~IsNone(frame.action_name)
    /\ ~IsNone(frame.action_input)
    /\ Val(frame.action_name) # "finish"
    /\ Val(frame.action_name) \in tools_map

ProposedAction == Ev("action_input", <<Val(frame.action_name), Val(frame.action_input)>>)

ObservationTurn == Msg("human", <<"Observation:">> \o frame.observation)

FinalAndAction ==
    /\ agent = "optimal"
    /\ frame.iteration >= 1
    /\ Positions(frame.llm_output, "Final Answer:") # {}
    /\ ActionMatches(frame.llm_output) # {}

FinalAnswerText(text) == After(text, Min(Positions(text, "Final Answer:")))

\* C32: in OptimalReActAgent a model output that holds both Final Answer:
\* and Action: tool[arg] is final: the stream ends with the final_answer
\* event of the text behind Final Answer:, the iteration has no
\* action_input event and dispatches no tool.
C32_FinalWins ==
    FinalAndAction
        => LET n == Len(events)
               answer == FinalAnswerText(frame.llm_output)
           IN  /\ pc = "done"
               /\ frame.iteration = i
               /\ frame.action_name = Some("finish")
               /\ events[n] = Ev("final_answer", IF answer # <<>> THEN answer
                                                 ELSE frame.llm_output)
               /\ events[n - 1].type \in {"info", "thought"}
               /\ events[n - 1].type = "thought" => events[n - 2].type = "info"
               /\ Cardinality(EventsOfType("info")) = i
               /\ tool_calls = Cardinality(EventsOfType("observation"))
               /\ tool_calls = Cardinality(EventsOfType("action_input"))

C32_Witness ==
    /\ FinalAndAction
    /\ frame.llm_output = ActionThenFinal
    /\ i = 2
    /\ tool_calls = 1
    /\ LastEvent = Ev("final_answer", <<"ans">>)

\* The model responses the running stream call of OptimalReActAgent has
\* received, and the tool dispatches whose result it has received.
ModelResponses ==
    llm_calls - (IF pc = "llm" THEN 1 ELSE 0) - Cardinality(RaisedBy("model"))

ToolResults ==
    tool_calls - (IF pc = "tool" THEN 1 ELSE 0) - Cardinality(RaisedBy("tool"))

TurnsOf(role) == {k \in DOMAIN messages : messages[k].role = role}

IsObservationTurn(m) ==
    m.role = "human" /\ m.content # <<>> /\ m.content[1] = "Observation:"

\* C33: in sparse mode of OptimalReActAgent every raw model turn is appended
\* to the history when it is received, reasoning-only turns and turns that
\* end in an error included, so after k model responses and d tool results
\* the history holds 2 + k + d turns, at most 2 + 2 * max_iterations; in
\* dense mode a model turn is appended only together with its observation,
\* so the history holds 2 + 2d turns.
C33_HistoryLength ==
    (agent = "optimal" /\ pc \notin {"idle", "sync_failed"})
        => LET k == ModelResponses
               d == ToolResults
           IN  /\ d = Cardinality(EventsOfType("observation"))
               /\ d <= k
               /\ k <= max_iterations
               /\ Len(messages) <= 2 + 2 * max_iterations
               /\ Cardinality({n \in DOMAIN messages : IsObservationTurn(messages[n])}) = d
               /\ IF sparse_reasoning
                  THEN /\ Len(messages) = 2 + k + d
                       /\ Cardinality(TurnsOf("ai")) = k
                       /\ frame.iteration >= 1
                            => \E n \in TurnsOf("ai") :
                                  /\ messages[n].content = frame.llm_output
                                  /\ \A m \in TurnsOf("ai") : m <= n
                  ELSE /\ Len(messages) = 2 + 2 * d
                       /\ Cardinality(TurnsOf("ai")) = d
                       /\ \A n \in TurnsOf("ai") :
                             n < Len(messages) /\ IsObservationTurn(messages[n + 1])

C33_Witness ==
    /\ agent = "optimal"
    /\ sparse_reasoning
    /\ pc = "done"
    /\ ModelResponses = 3
    /\ ToolResults = 1
    /\ Len(messages) = 6
    /\ messages[3].content = <<"Thought:", "think">>
    /\ messages[6].content = <<"hello">>
    /\ LastEvent.type = "error"
    /\ LastEvent.content.kind = "sparse_format"

\* The action a stored model turn of react_agent ReActAgent proposes: the
\* last match of the action pattern in its text.
ProposedBy(text) ==
    LET all_matches == FindAll(text, 1)
    IN  IF all_matches = <<>> THEN None ELSE Some(all_matches[Len(all_matches)])

ProposesTool(m) ==
    /\ m.role = "ai"
    /\ ~IsNone(ProposedBy(m.content))
    /\ Lower(Val(ProposedBy(m.content))[1]) # "finish"

\* the turns of self.messages that propose a tool and have no Observation
\* turn of that tool behind them, the turn whose tool is running left out
Unobserved ==
    {n \in DOMAIN messages :
        /\ ProposesTool(messages[n])
        /\ ~(n = Len(messages) /\ pc = "tool")
        /\ ~(/\ n < Len(messages)
             /\ IsObservationTurn(messages[n + 1])
             /\ Tail(messages[n + 1].content)
                   \in ToolReturns(Val(ProposedBy(messages[n].content))[1]))}

\* C34: in react_agent ReActAgent, after any sequence of stream calls, those
\* that end with an unknown-tool or a tool error included, every model turn
\* of messages that proposes a non-finish action is immediately followed by
\* the Observation turn of that action.
C34_ActionTurnsObserved == agent = "react" => Unobserved = {}

\* The occurrences of Action: name[arg] in a text do not overlap: each ends
\* before the next begins.
Separate(text) ==
    \A p, q \in ActionMatches(text) : p < q => ActionClose(text, p) < q

\* the last occurrence of Action: name[arg] in a text that has one
LastOccurrence(text) ==
    LET p == Max(ActionMatches(text))
    IN  <<text[p + 1], Between(text, p + 2, ActionClose(text, p))>>

\* the model turn the running iteration of react_agent ReActAgent stored
StoredTurn == messages[Len(messages)].content

\* C35: in react_agent ReActAgent, when the model text holds several
\* Action: name[arg] occurrences the last one is the action that is
\* executed, and when it holds none the iteration ends the stream with an
\* error event and dispatches no tool.
C35_LastActionExecuted ==
    agent = "react"
        => /\ pc = "tool"
                => /\ messages[Len(messages)].role = "ai"
                   /\ ActionMatches(StoredTurn) # {}
                   /\ Separate(StoredTurn)
                   /\ frame.action_name = Some(<<LastOccurrence(StoredTurn)[1]>>)
                   /\ frame.action_input = Some(LastOccurrence(StoredTurn)[2])
                   /\ last_action = Some(<<StoredTurn, Val(frame.action_name),
                                           Val(frame.action_input)>>)
                   /\ tool_calls = i
           /\ (pc = "loop" /\ i > 1)
                => /\ IsObservationTurn(messages[Len(messages)])
                   /\ messages[Len(messages) - 1].role = "ai"
                   /\ Tail(StoredTurn) \in ToolReturns(
                          LastOccurrence(messages[Len(messages) - 1].content)[1])
           /\ \A n \in ErrorEvents :
                 (events[n].content.kind = "no_action")
                     => /\ ActionMatches(events[n].content.output) = {}
                        /\ n = Len(events)
                        /\ pc = "done"
                        /\ last_action = None
                        /\ tool_calls = i - 1
                        /\ messages[Len(messages)].role # "ai"
           /\ (pc = "done" /\ last_action = None /\ RaisedBy("model") = {}
                 /\ i <= max_iterations)
                => /\ events # <<>>
                   /\ LastEvent.type = "error"
                   /\ LastEvent.content.kind = "no_action"

C35_Witness ==
    /\ agent = "react"
    /\ pc = "loop"
    /\ i = 2
    /\ tool_calls = 1
    /\ Cardinality(ActionMatches(messages[Len(messages) - 1].content)) = 2
    /\ messages[Len(messages) - 1].content[2] = "search"
    /\ StoredTurn = <<"Observation:">> \o ObsSuccess

\* C36: OptimalReActAgent.invoke and async_invoke return the same content
\* for the same run: the final_answer content when the stream produced a
\* final answer, "[ERROR] Agent failed: " and the error content when it
\* produced an error; neither returns its "Agent stopped without providing
\* a Final Answer" fallback.
C36_InvokeSameAsAsync ==
    (agent = "optimal" /\ pc \in {"done", "sync_failed"})
        => LET sync == Invoke(Received)
               async == AsyncInvoke(events)
           IN  /\ sync.lead = async.lead
               /\ sync.lead \in {"", "[ERROR] Agent failed:"}
               /\ sync.body = async.body
               /\ events # <<>>
               /\ sync.body = LastEvent.content
               /\ sync.lead = "" <=> LastEvent.type = "final_answer"

\* The argument of finish is an object with an input field: what the field
\* holds; any other argument decodes to itself.
HasInputField(arg) == Len(arg) = 3 /\ arg[1] = "{input:" /\ arg[3] = "}"

DecodedAnswer(arg) == IF HasInputField(arg) THEN <<arg[2]>> ELSE arg

\* the running stream call of react_agent ReActAgent ended on a finish action
EndedOnFinish ==
    /\ agent = "react"
    /\ pc = "done"
    /\ ~IsNone(last_action)
    /\ Lower(Val(last_action)[2][1]) = "finish"

\* C37: invoke of react_agent ReActAgent returns the final_answer events
\* joined, which is the decoded final answer (the input field of a finish
\* argument that is an object with one, the raw argument otherwise), and
\* returns empty content, the error text dropped, when the stream ends with
\* an error.
C37_InvokeJoinsAnswer ==
    (agent = "react" /\ pc = "done")
        => /\ EndedOnFinish
                => /\ ReactInvoke(events) = DecodedAnswer(Val(last_action)[3])
                   /\ messages[Len(messages)] = Msg("ai", ReactInvoke(events))
                   /\ Cardinality(FinalEvents) = Len(ReactInvoke(events))
                   /\ ErrorEvents = {}
           /\ ErrorEvents # {}
                => /\ ReactInvoke(events) = <<>>
                   /\ ~EndedOnFinish
           /\ EndedOnFinish \/ ErrorEvents # {}

C37_Witness ==
    /\ EndedOnFinish
    /\ Val(last_action)[3] = <<"{input:", "ans", "}">>
    /\ ReactInvoke(events) = <<"ans">>
    /\ i = 2

\* One step of OptimalReActAgent seen from its consumer: a model call or a
\* tool invocation begins in a step of its own, taken from the yield at
\* which the generator stood suspended, and a generator whose consumer has
\* stopped takes no step.
LazyStep ==
    agent = "optimal"
        => /\ llm_calls' = llm_calls + 1
                => /\ pc = "call_llm"
                   /\ LastEvent = Ev("info", [iteration |-> i, of |-> max_iterations])
                   /\ events' = events
                   /\ llm_calls = i - 1
           /\ tool_calls' = tool_calls + 1
                => /\ pc = "call_tool"
                   /\ LastEvent = Ev("action_input", <<Val(frame.action_name),
                                                       Val(frame.action_input)>>)
                   /\ events' = events
           /\ pc' \in {"call_llm", "call_tool"}
                => /\ llm_calls' = llm_calls
                   /\ tool_calls' = tool_calls
                   /\ events' # events
                   /\ events'[Len(events')].type
                         = (IF pc' = "call_llm" THEN "info" ELSE "action_input")
           /\ pc' = "closed"
                => /\ llm_calls' = llm_calls
                   /\ tool_calls' = tool_calls
                   /\ events' = events
           /\ pc = "closed" => UNCHANGED vars

\* C38: the event stream of OptimalReActAgent is lazy: the model call of an
\* iteration begins only when the consumer asks for the event after that
\* iteration's info event, a tool is dispatched only when the consumer asks
\* for the event after its action_input event, and a consumer that stops at
\* an action_input event causes no tool invocation.
C38_Lazy == [][LazyStep]_vars

C38_Witness ==
    /\ agent = "optimal"
    /\ pc = "closed"
    /\ LastEvent.type = "action_input"
    /\ LastEvent.content[1] \in tools_map
    /\ llm_calls = 1
    /\ tool_calls = 0

\* What one stream call of OptimalReActAgent holds when it runs alone, read
\* off its locals l: the history begins with the system prompt and the
\* call's own query, it has one model turn for each response kept and one
\* Observation turn for each tool result, the events number the call's own
\* iterations, and the observations of the history are those of the events.
ObservedIn(seq) == SelectSeq(seq, LAMBDA e : e.type = "observation")

ObservationTurns(history) == SelectSeq(history, IsObservationTurn)

OwnRun(l) ==
    LET k == l.llm_calls - (IF l.pc = "llm" THEN 1 ELSE 0)
                 - Cardinality({n \in DOMAIN l.raised : l.raised[n].what = "model"})
        d == l.tool_calls - (IF l.pc = "tool" THEN 1 ELSE 0)
                 - Cardinality({n \in DOMAIN l.raised : l.raised[n].what = "tool"})
        infos == SelectSeq(l.events, LAMBDA e : e.type = "info")
    IN  /\ Len(l.history) = (IF sparse_reasoning THEN 2 + k + d ELSE 2 + 2 * d)
        /\ l.history[1] = Msg("system", SystemPrompt)
        /\ l.history[2] = Msg("human", l.user_input)
        /\ \A n \in 3..Len(l.history) :
              l.history[n].role = "human" => IsObservationTurn(l.history[n])
        /\ Len(ObservedIn(l.events)) = d
        /\ Len(ObservationTurns(l.history)) = d
        /\ \A n \in 1..d : Tail(ObservationTurns(l.history)[n].content)
                              = ObservedIn(l.events)[n].content
        /\ \A n \in DOMAIN infos :
              infos[n].content = [iteration |-> n, of |-> max_iterations]
        /\ Len(infos) = l.llm_calls + (IF l.pc = "call_llm" THEN 1 ELSE 0)
        /\ l.frame.iteration <= l.i

BothOwnRuns ==
    (agent = "optimal" /\ pc # "idle")
        => /\ OwnRun(OptLocals)
           /\ ~IsNone(parked)
                => /\ OwnRun(Val(parked))
                   /\ Val(parked).user_input # user_input

\* a step of two concurrent calls: the call that runs leaves the locals of
\* the other as they are, a change of task hands each call its own locals
\* back, and no step writes the registry or the settings of the instance
PairStep ==
    /\ UNCHANGED config
    /\ ~IsNone(parked) => ~IsNone(parked')
    /\ (IsNone(parked) /\ ~IsNone(parked')) => Val(parked') = OptLocals
    /\ (~IsNone(parked) /\ parked' # parked)
          => /\ Val(parked') = OptLocals
             /\ OptLocals' = Val(parked)
    /\ BothOwnRuns'

\* C39: two stream calls running concurrently on one OptimalReActAgent do
\* not interfere: under every interleaving at the model-call and tool-call
\* suspension points each call's history and events are those of a call
\* that runs alone on its own query, model outputs and tool results; the
\* calls share the read-only registry and settings and nothing else.
C39_NoInterference == [][PairStep]_vars

C39_Witness ==
    /\ agent = "optimal"
    /\ ~IsNone(parked)
    /\ user_input = QueryOf(1)
    /\ Val(parked).user_input = QueryOf(2)
    /\ pc = "done"
    /\ i = 2
    /\ Len(messages) = 4
    /\ LastEvent.type = "final_answer"
    /\ Val(parked).pc = "done"
    /\ Val(parked).i = 2
    /\ Len(Val(parked).history) = 4
    /\ Val(parked).events[Len(Val(parked).events)].type = "final_answer"

\* the turns of self.messages that hold a query
QueryTurns == {n \in DOMAIN messages : messages[n].role = "human"}

\* The conversation of the instance belongs to the call that began last:
\* its query is the first turn and there is no other.
LatestOwnsMessages ==
    (agent = "custom" /\ ~IsNone(parked))
        => /\ QueryTurns = {1}
           /\ messages[1] = Msg("human", QueryOf(streams))
           /\ Val(parked).user_input # user_input

\* a step of two calls on one custom ReActAgent: the second call's start
\* replaces the conversation by its own query and empties the loop guard's
\* window while the first call is suspended, and resuming a call brings back
\* its locals and not the attributes of the instance
ReentryStep ==
    agent = "custom"
        => /\ (IsNone(parked) /\ ~IsNone(parked'))
                => /\ Val(parked') = CusLocals
                   /\ Val(parked').pc \in CusSuspended
                   /\ messages' = <<Msg("human", user_input')>>
                   /\ user_input' # user_input
                   /\ action_history' = <<>>
           /\ (~IsNone(parked) /\ parked' # parked)
                => /\ Val(parked') = CusLocals
                   /\ CusLocals' = Val(parked)
                   /\ UNCHANGED <<messages, action_history, last_action>>
           /\ (pc = "loop" /\ pc' = "llm") => last_action' = None
           /\ LatestOwnsMessages'

\* C40: the custom ReActAgent is not reentrant: a second stream call that
\* starts on the instance while the first is suspended at its model call,
\* its tool call or an event yield clears the first call's messages and
\* loop-guard history and overwrites _last_action, and the first call, when
\* resumed, goes on with the attributes as the second call left them.
C40_NotReentrant == [][ReentryStep]_vars

\* the first call stands at its second model call: the prompt lacks its own
\* query, and the action it dispatched in its first iteration is the one
\* parsed for the second call, not the one its own model response named
C40_Witness ==
    /\ agent = "custom"
    /\ ~IsNone(parked)
    /\ user_input = QueryOf(1)
    /\ Val(parked).user_input = QueryOf(2)
    /\ pc = "llm"
    /\ i = 2
    /\ \A n \in DOMAIN ModelInput : ModelInput[n] # Msg("human", user_input)
    /\ frame.llm_output = ThoughtSearch
    /\ frame.action_name = Some(<<"calculate">>)
    /\ Val(parked).frame.llm_output
          = <<"Thought:", "think", "Action:", "calculate", "[", "q", "]">>
    /\ tool_calls = 1

====
